---------------------------- MODULE Spec2Model ----------------------------
(***************************************************************************)
(* A model of the analysis engine of ai-debt-guardian:                     *)
(*   - the history analysis (edge function analyze-commits): scorePatch,   *)
(*     the running-score recurrence, spike detection, the summary;         *)
(*   - the snapshot analysis (edge function analyze-repo): the per-file    *)
(*     detectors, buildPropagationGraph and the serve handler.             *)
(*                                                                         *)
(* Numbers.  The code computes in JavaScript doubles.  The model computes  *)
(* the recurrence in exact rationals <<numerator, denominator>> and keeps  *)
(* every value the code rounds with Math.round(x * 100) / 100 as the       *)
(* integer number of hundredths.  The one place where the binary64         *)
(* evaluation is modelled bit for bit is the spike comparison, whose       *)
(* boundary the specification pins down (see JumpExceedsThreshold).        *)
(***************************************************************************)
EXTENDS Integers, Sequences, FiniteSets, TLC

VARIABLES
    hpc,          \* history analysis: position of the serve handler
    commits,      \* history analysis: the commit list as fetched (newest first)
    runningTech,  \* history analysis: accumulator, a rational
    runningCog,   \* history analysis: accumulator, a rational
    runningAi,    \* history analysis: accumulator, a rational
    analyses,     \* history analysis: the CommitAnalysis records pushed so far
    lastFetch,    \* history analysis: outcome of the latest detail fetch
    lastDetail,   \* history analysis: the detail the latest iteration read
    response,     \* history analysis: the response of the handler
    replay,       \* replay of two commits in both orders: inputs and trajectories
    timeline,     \* history analysis of a whole commit sequence: inputs and response
    gpc,          \* propagation graph: "input" before the builder ran, "built" after
    fileAnalyses, \* propagation graph: the FileAnalysis list given to the builder
    fileContents, \* propagation graph: per path, the import references of its text
    edges,        \* propagation graph: the builder's edge array before the cut
    propagation,  \* propagation graph: the edges the builder returns
    spc,          \* snapshot analysis: position of the serve handler
    ghFiles,      \* snapshot analysis: the code files of the repository tree
    cursor,       \* snapshot analysis: index of the next file of the loop
    snapshot,     \* snapshot analysis: the FileAnalysis records pushed so far
    result,       \* snapshot analysis: the response of the handler
    listing,      \* snapshot analysis: the repository tree and what fetchRepoFiles did
    scan,         \* nesting scan: the text, the position and the two counters
    dash          \* dashboard page: its React state, the cache and the calls in flight

hvars == <<hpc, commits, runningTech, runningCog, runningAi, analyses,
           lastFetch, lastDetail, response>>

gvars == <<gpc, fileAnalyses, fileContents, edges, propagation>>

svars == <<spc, ghFiles, cursor, snapshot, result, listing>>

uvars == <<scan, dash>>

\* what the history analysis leaves alone
nonHistory == <<replay, timeline, gvars, svars, uvars>>

vars == <<hvars, replay, timeline, gvars, svars, uvars>>

-----------------------------------------------------------------------------
(* Bounds *)

MaxCommits == 3

\* the most files a corpus given to the graph builder holds
MaxFiles == 3

\* the length of the long import list of a file
ManyImports == 18

-----------------------------------------------------------------------------
(* Exact rational arithmetic, used where the code computes in doubles *)

RECURSIVE GCD(_, _)
GCD(a, b) == IF b = 0 THEN a ELSE GCD(b, a % b)

Abs(n) == IF n < 0 THEN -n ELSE n

Rat(n, d) ==
    LET g == GCD(Abs(n), d)
    IN  IF n = 0 THEN <<0, 1>> ELSE <<n \div g, d \div g>>

RMul(x, y) ==
    LET g1 == GCD(Abs(x[1]), y[2])
        g2 == GCD(Abs(y[1]), x[2])
    IN  Rat((x[1] \div g1) * (y[1] \div g2), (x[2] \div g2) * (y[2] \div g1))

RAdd(x, y) ==
    LET g == GCD(x[2], y[2])
    IN  Rat(x[1] * (y[2] \div g) + y[1] * (x[2] \div g), (x[2] \div g) * y[2])

RLt(x, y) == x[1] * y[2] < y[1] * x[2]

RLe(x, y) == x[1] * y[2] <= y[1] * x[2]

RMin(x, y) == IF RLt(y, x) THEN y ELSE x

RMax(x, y) == IF RLt(x, y) THEN y ELSE x

Zero == <<0, 1>>

One == <<1, 1>>

\* n hundredths as a rational
Hundredths(n) == Rat(n, 100)

\* Math.round(x * 100): floor(100 x + 1/2), computed digit by digit
Round100(x) ==
    LET q1 == (10 * x[1]) \div x[2]
        r1 == (10 * x[1]) % x[2]
        q2 == (10 * r1) \div x[2]
        r2 == (10 * r1) % x[2]
    IN  10 * q1 + q2 + (IF 2 * r2 >= x[2] THEN 1 ELSE 0)

Max(a, b) == IF a > b THEN a ELSE b

Min(a, b) == IF a < b THEN a ELSE b

-----------------------------------------------------------------------------
(* History analysis: the inputs the GitHub API supplies *)

Authors == {"alice", "bob"}

\* One entry of detail.files.  hasPatch is FALSE for a file GitHub returns
\* without a patch (file.patch is undefined).  The other fields are what
\* scorePatch counts in the patch text.
Patch(hasPatch, lines, braces, branches, signals, flags) ==
    [hasPatch |-> hasPatch,
     addedLines |-> lines[1], removedLines |-> lines[2],
     addedBraces |-> braces[1], removedBraces |-> braces[2],
     addedBranches |-> branches[1], removedBranches |-> branches[2],
     dupes |-> signals[1], genericNames |-> signals[2],
     comments |-> signals[3], magics |-> signals[4],
     hasAsync |-> flags[1], hasTryCatch |-> flags[2]]

NoSignals == <<0, 0, 0, 0>>

NoFlags == <<FALSE, FALSE>>

\* 120 added lines with 4 braces and 20 branches, nothing removed
PatchBig == Patch(TRUE, <<120, 0>>, <<4, 0>>, <<20, 0>>, NoSignals, NoFlags)

\* one line replaced, one new branch
PatchBranch == Patch(TRUE, <<1, 1>>, <<0, 0>>, <<1, 0>>, NoSignals, NoFlags)

\* an await without try/catch
PatchAsync ==
    Patch(TRUE, <<2, 2>>, <<0, 0>>, <<0, 0>>, NoSignals, <<TRUE, FALSE>>)

\* repeated lines, generic names, many comments, four new braces
PatchAI == Patch(TRUE, <<12, 0>>, <<4, 0>>, <<0, 0>>, <<1, 6, 4, 4>>, NoFlags)

\* a patch that only removes code
PatchShrink == Patch(TRUE, <<0, 5>>, <<0, 2>>, <<0, 3>>, NoSignals, NoFlags)

\* a file without a patch
NoPatch == Patch(FALSE, <<0, 0>>, <<0, 0>>, <<0, 0>>, NoSignals, NoFlags)

Detail(files, additions, deletions) ==
    [files |-> files, additions |-> additions, deletions |-> deletions]

\* The commit details a detail fetch may return
Details ==
    { Detail(<<PatchBig>>, 120, 0),
      Detail(<<PatchBranch>>, 1, 1),
      Detail(<<PatchAsync>>, 2, 2),
      Detail(<<PatchAI, NoPatch>>, 3, 1),
      Detail(<<PatchShrink>>, 0, 5),
      Detail(<<>>, 0, 0) }

NoDetail == Detail(<<>>, 0, 0)

\* The lists the commit list fetch may return, newest first: the date of a
\* commit is its distance from the oldest one.
CommitLists ==
    UNION { { [i \in 1..n |-> [date |-> n + 1 - i, author |-> a[i]]] :
              a \in [1..n -> Authors] } : n \in 0..MaxCommits }

-----------------------------------------------------------------------------
(* History analysis: scorePatch, in hundredths *)

\* mutant: the three Math.min(.., 1) of the return are missing
scorePatch_NoCap(p) ==
    [techDelta |->
          (IF p.addedBraces > p.removedBraces + 3 THEN 15 ELSE 0)
        + Max(0, (p.addedBranches - p.removedBranches) * 2)
        + (IF p.addedLines - p.removedLines > 50 THEN 10 ELSE 0)
        + (IF p.addedLines - p.removedLines > 100 THEN 15 ELSE 0)
        + (IF p.dupes > 0 THEN 10 ELSE 0)
        + (IF p.magics > 3 THEN 5 ELSE 0)
        + (IF p.hasAsync /\ ~p.hasTryCatch THEN 8 ELSE 0),
     cogDelta |->
          (IF p.genericNames > 5 THEN 10 ELSE 0)
        + (IF 10 * p.comments > 3 * p.addedLines THEN 10 ELSE 0),
     aiDelta |->
          (IF p.dupes > 0 THEN 12 ELSE 0)
        + (IF p.genericNames > 5 THEN 8 ELSE 0)
        + (IF 10 * p.comments > 3 * p.addedLines THEN 10 ELSE 0)]

scorePatch(p) ==
    LET netLines == p.addedLines - p.removedLines
        techDelta ==
              (IF p.addedBraces > p.removedBraces + 3 THEN 15 ELSE 0)
            + Max(0, (p.addedBranches - p.removedBranches) * 2)
            + (IF netLines > 50 THEN 10 ELSE 0)
            + (IF netLines > 100 THEN 15 ELSE 0)
            + (IF p.dupes > 0 THEN 10 ELSE 0)
            + (IF p.magics > 3 THEN 5 ELSE 0)
            + (IF p.hasAsync /\ ~p.hasTryCatch THEN 8 ELSE 0)
        cogDelta ==
              (IF p.genericNames > 5 THEN 10 ELSE 0)
            + (IF 10 * p.comments > 3 * p.addedLines THEN 10 ELSE 0)
        aiDelta ==
              (IF p.dupes > 0 THEN 12 ELSE 0)
            + (IF p.genericNames > 5 THEN 8 ELSE 0)
            + (IF 10 * p.comments > 3 * p.addedLines THEN 10 ELSE 0)
    IN  [techDelta |-> Min(techDelta, 100),
         cogDelta |-> Min(cogDelta, 100),
         aiDelta |-> Min(aiDelta, 100)]

\* (detail.files || []).slice(0, 10)
ScoredFiles(files) == SubSeq(files, 1, Min(Len(files), 10))

RECURSIVE SumScores(_, _)
SumScores(files, field) ==
    IF files = <<>> THEN 0
    ELSE (IF Head(files).hasPatch THEN scorePatch(Head(files))[field] ELSE 0)
         + SumScores(Tail(files), field)

\* "Normalize by files": the summed delta over filesChanged, as a rational
NormalizedDelta(detail, field) ==
    LET filesChanged == Len(detail.files)
        sum == SumScores(ScoredFiles(detail.files), field)
    IN  IF filesChanged > 0 THEN Rat(sum, 100 * Max(filesChanged, 1))
        ELSE Rat(sum, 100)

netGrowth(detail) ==
    Rat(detail.additions - detail.deletions,
        Max(detail.additions + detail.deletions, 1))

\* mutant: the README's single factor 1 + netGrowth * 0.3 for either sign
growthFactor_Symmetric(detail) ==
    RAdd(One, RMul(netGrowth(detail), Rat(3, 10)))

\* mutant: no growth factor, the deltas are only added
growthFactor_Flat(detail) == One

growthFactor(detail) ==
    IF RLt(Zero, netGrowth(detail))
    THEN RAdd(One, RMul(netGrowth(detail), Rat(3, 10)))
    ELSE RAdd(One, RMul(netGrowth(detail), Rat(1, 10)))

\* mutant: the upper clamp is missing
Clamp01_NoUpper(x) == RMax(x, Zero)

\* Math.min(Math.max(x, 0), 1)
Clamp01(x) == RMin(RMax(x, Zero), One)

AccumulateTech(running, detail) ==
    Clamp01(RAdd(RMul(running, growthFactor(detail)),
                 NormalizedDelta(detail, "techDelta")))

AccumulateCog(running, detail) ==
    Clamp01(RAdd(RMul(running, growthFactor(detail)),
                 NormalizedDelta(detail, "cogDelta")))

\* mutant: the AI score decays with the growth factor as the two debts do
AccumulateAi_Decay(running, detail) ==
    Clamp01(RAdd(RMul(running, growthFactor(detail)),
                 RMul(NormalizedDelta(detail, "aiDelta"), Rat(1, 2))))

AccumulateAi(running, detail) ==
    Clamp01(RAdd(running, RMul(NormalizedDelta(detail, "aiDelta"), Rat(1, 2))))

\* const orderedCommits = [...commits].reverse()
orderedCommits == [i \in 1..Len(commits) |-> commits[Len(commits) + 1 - i]]

-----------------------------------------------------------------------------
(* History analysis: what the handler derives from the records *)

\* const spikeThreshold = 0.08, in hundredths
spikeThreshold == 8

\* The lower values a, in hundredths, for which the binary64 difference
\* (a + 8)/100 - a/100 is a double above the double 0.08.  For every other
\* pair of hundredths in 0..100 the binary64 comparison agrees with the exact one.
Float64RoundsAbove ==
    {6, 9, 12, 15, 18, 19, 20, 24, 25, 26, 29, 30, 31, 32, 35, 36, 37, 38, 41,
     42, 43, 44, 45, 46, 47, 48, 57, 58, 59, 60, 69, 70, 71, 72, 73, 82, 83,
     84, 85}

\* analyses[i].techDebt - analyses[i - 1].techDebt > spikeThreshold, as the
\* doubles evaluate it; prev and cur are hundredths
JumpExceedsThreshold(prev, cur) ==
    \/ cur - prev > spikeThreshold
    \/ cur - prev = spikeThreshold /\ prev \in Float64RoundsAbove

\* mutant: only the cogDebt jump is looked at
DetectSpikes_CogOnly(recs) ==
    [i \in 1..Len(recs) |->
        IF i > 1 /\ JumpExceedsThreshold(recs[i - 1].cogDebt, recs[i].cogDebt)
        THEN [recs[i] EXCEPT !.isSpike = TRUE]
        ELSE recs[i]]

\* The spike loop: record 1 keeps isSpike = false
DetectSpikes(recs) ==
    [i \in 1..Len(recs) |->
        IF i > 1 /\ (\/ JumpExceedsThreshold(recs[i - 1].techDebt, recs[i].techDebt)
                     \/ JumpExceedsThreshold(recs[i - 1].cogDebt, recs[i].cogDebt))
        THEN [recs[i] EXCEPT !.isSpike = TRUE]
        ELSE recs[i]]

\* mutant: the sizes of the jumps are summed, a fall counting as a rise
RECURSIVE SumJumps_Magnitude(_, _, _)
SumJumps_Magnitude(S, recs, field) ==
    IF S = {} THEN 0
    ELSE LET i == CHOOSE x \in S : TRUE
         IN  Abs(recs[i][field] - recs[i - 1][field])
               + SumJumps_Magnitude(S \ {i}, recs, field)

\* The sum over the indices S of recs[i][field] - recs[i - 1][field]
RECURSIVE SumJumps(_, _, _)
SumJumps(S, recs, field) ==
    IF S = {} THEN 0
    ELSE LET i == CHOOSE x \in S : TRUE
         IN  (recs[i][field] - recs[i - 1][field]) + SumJumps(S \ {i}, recs, field)

\* mutant: a difference is attributed to the author of the earlier record
AuthoredFrom2_Earlier(recs, name) ==
    {i \in 2..Len(recs) : recs[i - 1].author = name}

\* The indices the developer-impact loop attributes to an author
AuthoredFrom2(recs, name) == {i \in 2..Len(recs) : recs[i].author = name}

\* The entry of the devImpact map for one author, in hundredths
Developer(recs, name) ==
    LET idx == AuthoredFrom2(recs, name)
        tech == SumJumps(idx, recs, "techDebt")
        cog == SumJumps(idx, recs, "cogDebt")
    IN  [name |-> name, techImpact |-> tech, cogImpact |-> cog,
         commits |-> Cardinality(idx), totalImpact |-> tech + cog]

\* The keys of the devImpact map in insertion order
RECURSIVE DevOrder(_, _, _)
DevOrder(recs, i, seen) ==
    IF i > Len(recs) THEN <<>>
    ELSE IF recs[i].author \in seen THEN DevOrder(recs, i + 1, seen)
    ELSE <<recs[i].author>> \o DevOrder(recs, i + 1, seen \cup {recs[i].author})

\* Insert d into a list sorted by descending totalImpact, after its equals
RECURSIVE InsertDev(_, _)
InsertDev(sorted, d) ==
    IF sorted = <<>> THEN <<d>>
    ELSE IF d.totalImpact > Head(sorted).totalImpact THEN <<d>> \o sorted
    ELSE <<Head(sorted)>> \o InsertDev(Tail(sorted), d)

RECURSIVE SortDevs(_, _)
SortDevs(devs, sorted) ==
    IF devs = <<>> THEN sorted
    ELSE SortDevs(Tail(devs), InsertDev(sorted, Head(devs)))

Developers(recs) ==
    LET order == DevOrder(recs, 2, {})
    IN  SortDevs([k \in 1..Len(order) |-> Developer(recs, order[k])], <<>>)

SpikeCount(recs) == Cardinality({i \in 1..Len(recs) : recs[i].isSpike})

techSlope(recs) == recs[Len(recs)].techDebt - recs[1].techDebt

cogSlope(recs) == recs[Len(recs)].cogDebt - recs[1].cogDebt

\* The outcomes of avgSlope > 0.15 and avgSlope < -0.1.  The slopes are
\* differences of hundredths taken in doubles: away from the threshold the
\* comparison is the exact one; at an avgSlope of exactly 0.15 (or -0.1) the
\* doubles come out above the threshold for some records and not for others
\* (0.33 - 0.03 gives an avgSlope of 0.15000000000000002, 0.5 - 0.2 gives
\* 0.15), so both outcomes are kept there.
SlopeOutcomes(recs) ==
    LET sum == techSlope(recs) + cogSlope(recs)
    IN  [rising : IF sum = 30 THEN BOOLEAN ELSE {sum > 30},
         falling : IF sum = -20 THEN BOOLEAN ELSE {sum < -20}]

\* the if / else if chain of the trend, given the two slope comparisons
Trend(recs, slope) ==
    IF slope.rising THEN "increasing"
    ELSE IF slope.falling THEN "improving"
    ELSE IF SpikeCount(recs) > 3 THEN "unstable"
    ELSE "fluctuating"

\* analyses.slice(-5)
recentSlice(recs) == SubSeq(recs, Max(1, Len(recs) - 4), Len(recs))

\* Per window length n, the first values a (hundredths) for which the doubles
\* evaluate ((a + 5 n) / 100 - a / 100) / n above 0.05; for a rise other than
\* 5 n hundredths the binary64 comparison agrees with the exact one.
Float64SlopeAbove ==
    << {},
       {18, 24, 29, 30, 35, 36, 41, 42, 43, 44, 45, 46, 57, 58, 69, 70, 71,
        82, 83},
       {2, 5, 8, 11, 12, 13, 18, 19, 24, 25, 29, 30, 31, 35, 36, 37, 38, 39,
        40, 41, 47, 48, 49, 50, 51, 52, 53, 57, 58, 59, 60, 61, 62, 63, 64,
        65, 66, 69, 70, 71, 72, 73, 74, 75, 76, 77, 78, 82, 83, 84, 85},
       {35, 36, 47, 48, 57, 58, 59, 60, 61, 69, 70, 71, 72, 73},
       {29, 30, 31, 41, 42, 43} >>

\* recentSlope against 0.05 and 0
Momentum(recs) ==
    LET slice == recentSlice(recs)
        rise == slice[Len(slice)].techDebt - slice[1].techDebt
        fast == \/ rise > 5 * Len(slice)
                \/ /\ rise = 5 * Len(slice)
                   /\ slice[1].techDebt \in Float64SlopeAbove[Len(slice)]
    IN  IF Len(slice) > 1 /\ fast THEN "fast"
        ELSE IF Len(slice) > 1 /\ rise > 0 THEN "slow"
        ELSE "stable"

\* mutant: the extrapolation is not clamped
ClampedLine_NoClamp(last, slope, factor) ==
    RAdd(Hundredths(last), RMul(Hundredths(slope), factor))

\* Math.min(Math.max(last + slope * factor, 0), 1), last and slope in hundredths
ClampedLine(last, slope, factor) ==
    Clamp01(RAdd(Hundredths(last), RMul(Hundredths(slope), factor)))

\* the value lies exactly between two hundredths
HalfWay(x) == RMul(x, Rat(200, 1))[2] = 1 /\ RMul(x, Rat(200, 1))[1] % 2 = 1

\* The outcomes of Math.round(x * 100) for the two 5-commit predictions.  A
\* value half way between two hundredths is no double: the product x * 100
\* comes out a last digit below or above k + 0.5 and is rounded down or up,
\* so both outcomes are kept there.
HalfOutcomes(recs) ==
    LET last == recs[Len(recs)]
    IN  [tech : IF HalfWay(ClampedLine(last.techDebt, techSlope(recs), Rat(1, 2)))
                THEN BOOLEAN ELSE {TRUE},
         cog : IF HalfWay(ClampedLine(last.cogDebt, cogSlope(recs), Rat(1, 2)))
               THEN BOOLEAN ELSE {TRUE}]

\* Math.round(Math.min(Math.max(last + slope * factor, 0), 1) * 100) / 100
Extrapolate(last, slope, factor, up) ==
    LET x == ClampedLine(last, slope, factor)
    IN  IF HalfWay(x) /\ ~up THEN Round100(x) - 1 ELSE Round100(x)

Prediction(recs, half) ==
    LET last == recs[Len(recs)]
    IN  [techDebt5 |->
             Extrapolate(last.techDebt, techSlope(recs), Rat(1, 2), half.tech),
         techDebt10 |-> Extrapolate(last.techDebt, techSlope(recs), One, TRUE),
         cogDebt5 |->
             Extrapolate(last.cogDebt, cogSlope(recs), Rat(1, 2), half.cog),
         cogDebt10 |-> Extrapolate(last.cogDebt, cogSlope(recs), One, TRUE)]

\* the graph builder's variables while another analysis is modelled
GraphIdle ==
    /\ gpc = "idle"
    /\ fileAnalyses = <<>>
    /\ fileContents = <<>>
    /\ edges = <<>>
    /\ propagation = <<>>

\* no repository tree is modelled: the file list is given
NoListing ==
    [items |-> <<>>, repoInfoOk |-> TRUE, rootOk |-> TRUE, calls |-> <<>>,
     files |-> <<>>]

\* the snapshot handler's variables while another analysis is modelled
SnapshotIdle ==
    /\ spc = "idle"
    /\ ghFiles = <<>>
    /\ cursor = 1
    /\ snapshot = <<>>
    /\ result = [kind |-> "none", message |-> ""]
    /\ listing = NoListing

\* no text is being scanned
NoScan == [content |-> <<>>, i |-> 1, depth |-> 0, maxDepth |-> 0]

\* data === null: no analysis result is displayed
NoResult == [url |-> "", ok |-> FALSE]

\* the dashboard page is not mounted
NoDash ==
    [mounted |-> FALSE, data |-> NoResult, loading |-> FALSE, error |-> FALSE,
     lastUrl |-> "", analysisCache |-> {}, pending |-> {}, submitted |-> "",
     retry |-> "none", calls |-> 0, overlapped |-> FALSE]

\* the nesting scan and the dashboard while another analysis is modelled
UtilIdle ==
    /\ scan = NoScan
    /\ dash = NoDash

NoReplay == [prefix |-> NoDetail, first |-> NoDetail, second |-> NoDetail,
             forward |-> <<>>, backward |-> <<>>]

NoResponse == [kind |-> "none", message |-> ""]

NoTimeline == [details |-> <<>>, summary |-> NoResponse]

ErrorResponse(message) == [kind |-> "error", message |-> message]

Summary(recs, slope, half) ==
    LET marked == DetectSpikes(recs)
    IN  [kind |-> "ok", commits |-> marked, developers |-> Developers(marked),
         trend |-> Trend(marked, slope), momentum |-> Momentum(marked),
         prediction |-> Prediction(marked, half),
         spikeCount |-> SpikeCount(marked)]

-----------------------------------------------------------------------------
(* History analysis: the serve handler of analyze-commits *)

HInit ==
    /\ hpc = "request"
    /\ commits = <<>>
    /\ runningTech = Rat(1, 10)
    /\ runningCog = Rat(1, 10)
    /\ runningAi = Rat(5, 100)
    /\ analyses = <<>>
    /\ lastFetch = "none"
    /\ lastDetail = NoDetail
    /\ response = NoResponse
    /\ replay = NoReplay
    /\ timeline = NoTimeline
    /\ GraphIdle
    /\ UtilIdle
    /\ SnapshotIdle

\* repoUrl is missing or parseOwnerRepo throws
RejectRequest ==
    /\ hpc = "request"
    /\ hpc' = "done"
    /\ response' = ErrorResponse("Invalid repository URL")
    /\ UNCHANGED <<commits, runningTech, runningCog, runningAi, analyses,
                   lastFetch, lastDetail>>
    /\ UNCHANGED nonHistory

\* the commit list fetch throws
FetchCommitsFail ==
    /\ hpc = "request"
    /\ hpc' = "done"
    /\ response' = ErrorResponse("GitHub API status")
    /\ UNCHANGED <<commits, runningTech, runningCog, runningAi, analyses,
                   lastFetch, lastDetail>>
    /\ UNCHANGED nonHistory

FetchCommits ==
    /\ hpc = "request"
    /\ \E list \in CommitLists : commits' = list
    /\ hpc' = "loop"
    /\ UNCHANGED <<runningTech, runningCog, runningAi, analyses, lastFetch,
                   lastDetail, response>>
    /\ UNCHANGED nonHistory

\* The record the loop pushes for a commit
Record(commit, tech, cog, ai, detail) ==
    [sha |-> commit.date, author |-> commit.author,
     techDebt |-> Round100(tech), cogDebt |-> Round100(cog),
     aiContribution |-> Round100(ai), filesChanged |-> Len(detail.files),
     additions |-> detail.additions, deletions |-> detail.deletions,
     isSpike |-> FALSE]

\* One iteration of the loop whose detail fetch succeeds
ProcessCommit ==
    /\ hpc = "loop"
    /\ Len(analyses) < Len(commits)
    /\ \E detail \in Details :
         LET commit == orderedCommits[Len(analyses) + 1]
             tech == AccumulateTech(runningTech, detail)
             cog == AccumulateCog(runningCog, detail)
             ai == AccumulateAi(runningAi, detail)
         IN  /\ runningTech' = tech
             /\ runningCog' = cog
             /\ runningAi' = ai
             /\ analyses' = Append(analyses, Record(commit, tech, cog, ai, detail))
             /\ lastDetail' = detail
    /\ lastFetch' = "ok"
    /\ UNCHANGED <<hpc, commits, response>>
    /\ UNCHANGED nonHistory

\* mutant: the failed detail fetch is not caught inside the loop
SkipCommit_Aborts ==
    /\ hpc = "loop"
    /\ Len(analyses) < Len(commits)
    /\ hpc' = "done"
    /\ response' = ErrorResponse("GitHub API status")
    /\ lastFetch' = "failed"
    /\ UNCHANGED <<commits, runningTech, runningCog, runningAi, analyses,
                   lastDetail>>
    /\ UNCHANGED nonHistory

\* One iteration of the loop whose detail fetch throws: catch { /* skip */ }
SkipCommit ==
    /\ hpc = "loop"
    /\ Len(analyses) < Len(commits)
    /\ analyses' = Append(analyses,
                          Record(orderedCommits[Len(analyses) + 1], runningTech,
                                 runningCog, runningAi, NoDetail))
    /\ lastFetch' = "failed"
    /\ lastDetail' = NoDetail
    /\ UNCHANGED <<hpc, commits, runningTech, runningCog, runningAi, response>>
    /\ UNCHANGED nonHistory

\* mutant: an empty history is answered with an empty, stable summary
Finish_EmptySummary ==
    /\ hpc = "loop"
    /\ Len(analyses) = Len(commits)
    /\ hpc' = "done"
    /\ IF analyses = <<>>
       THEN response' = [kind |-> "ok", commits |-> <<>>, developers |-> <<>>,
                         trend |-> "stable", momentum |-> "stable",
                         prediction |-> [techDebt5 |-> 0, techDebt10 |-> 0,
                                         cogDebt5 |-> 0, cogDebt10 |-> 0],
                         spikeCount |-> 0]
       ELSE \E slope \in SlopeOutcomes(analyses) :
              \E half \in HalfOutcomes(analyses) :
                response' = Summary(analyses, slope, half)
    /\ UNCHANGED <<commits, runningTech, runningCog, runningAi, analyses,
                   lastFetch, lastDetail>>
    /\ UNCHANGED nonHistory

\* After the loop: spikes, developers, trend, momentum, prediction.  With no
\* record, analyses[0] is undefined and reading first.techDebt throws.
Finish ==
    /\ hpc = "loop"
    /\ Len(analyses) = Len(commits)
    /\ hpc' = "done"
    /\ IF analyses = <<>> THEN response' = ErrorResponse("TypeError")
       ELSE \E slope \in SlopeOutcomes(analyses) :
              \E half \in HalfOutcomes(analyses) :
                response' = Summary(analyses, slope, half)
    /\ UNCHANGED <<commits, runningTech, runningCog, runningAi, analyses,
                   lastFetch, lastDetail>>
    /\ UNCHANGED nonHistory

HNext ==
    \/ RejectRequest
    \/ FetchCommitsFail
    \/ FetchCommits
    \/ ProcessCommit
    \/ SkipCommit
    \/ Finish

Spec == HInit /\ [][HNext]_vars

-----------------------------------------------------------------------------
(* Claims about the history analysis, checked under Spec *)

InUnit(x) == RLe(Zero, x) /\ RLe(x, One)

RecordInUnit(rec) ==
    /\ rec.techDebt \in 0..100
    /\ rec.cogDebt \in 0..100
    /\ rec.aiContribution \in 0..100

\* C2: after any sequence of commits, fetched or failed, runningTech,
\* runningCog and runningAi lie in [0,1], and so do techDebt, cogDebt and
\* aiContribution of every record pushed and of every record returned.
C2_RunningScoresInUnit ==
    /\ InUnit(runningTech) /\ InUnit(runningCog) /\ InUnit(runningAi)
    /\ \A i \in 1..Len(analyses) : RecordInUnit(analyses[i])
    /\ response.kind = "ok" =>
         \A i \in 1..Len(response.commits) : RecordInUnit(response.commits[i])

\* C2 witness: a returned history with a failed fetch in which the upper
\* clamp has cut runningTech to 1
C2_Witness ==
    /\ response.kind = "ok"
    /\ runningTech = One
    /\ \E i \in 1..Len(analyses) : analyses[i].filesChanged = 0
    /\ \E i \in 1..Len(analyses) : analyses[i].techDebt < 100

\* The growth factor as the claim C3 states it
C3_GrowthFactor(additions, deletions) ==
    LET total == additions + deletions
        net == IF total = 0 THEN Zero ELSE Rat(additions - deletions, total)
    IN  IF RLt(Zero, net) THEN RAdd(One, RMul(Rat(3, 10), net))
        ELSE RAdd(One, RMul(Rat(1, 10), net))

C4_SpikeIffAboveThreshold ==
    response.kind = "ok" =>
        \A i \in 1..Len(response.commits) :
            LET recs == response.commits
            IN  recs[i].isSpike <=>
                  /\ i > 1
                  /\ \/ recs[i].techDebt - recs[i - 1].techDebt > 8
                     \/ recs[i].cogDebt - recs[i - 1].cogDebt > 8

\* C5: a failed detail fetch does not abort: a record is pushed whose scores
\* are the running state left by the previous commit, which stays unchanged,
\* with filesChanged, additions and deletions 0; the loop goes on and the
\* handler answers with one record per commit.
C5_FailedFetchAbsorbed ==
    /\ [](hpc = "done" /\ commits # <<>> =>
            response.kind = "ok" /\ Len(response.commits) = Len(commits))
    /\ [][ lastFetch' = "failed" /\ analyses' # analyses =>
             LET rec == analyses'[Len(analyses')]
             IN  /\ Len(analyses') = Len(analyses) + 1
                 /\ SubSeq(analyses', 1, Len(analyses)) = analyses
                 /\ <<runningTech', runningCog', runningAi'>>
                      = <<runningTech, runningCog, runningAi>>
                 /\ rec.techDebt = Round100(runningTech)
                 /\ rec.cogDebt = Round100(runningCog)
                 /\ rec.aiContribution = Round100(runningAi)
                 /\ rec.filesChanged = 0 /\ rec.additions = 0 /\ rec.deletions = 0
                 /\ Len(analyses) > 0 =>
                      /\ rec.techDebt = analyses[Len(analyses)].techDebt
                      /\ rec.cogDebt = analyses[Len(analyses)].cogDebt
                      /\ rec.aiContribution = analyses[Len(analyses)].aiContribution
                 /\ hpc' = "loop"
         ]_vars

\* C5 witness: a returned history whose middle commit failed to fetch between
\* two commits that changed the running state
C5_Witness ==
    /\ response.kind = "ok"
    /\ Len(analyses) = 3
    /\ analyses[1].techDebt > 10
    /\ analyses[2].filesChanged = 0 /\ analyses[2].techDebt = analyses[1].techDebt
    /\ analyses[3].techDebt > analyses[2].techDebt

\* the responses of the history analysis: of the handler run step by step,
\* and of the handler run over a whole commit sequence
C11_Summaries == {r \in {response, timeline.summary} : r.kind = "ok"}

\* the sum of the two slopes of the returned records, in hundredths
C11_SlopeSum(r) == techSlope(r.commits) + cogSlope(r.commits)

\* the trend the stated rule gives, thresholds compared exactly
C11_StatedTrend(r) ==
    IF C11_SlopeSum(r) > 30 THEN "increasing"
    ELSE IF C11_SlopeSum(r) < -20 THEN "improving"
    ELSE IF r.spikeCount > 3 THEN "unstable"
    ELSE "fluctuating"

\* C11: with avgSlope = ((last.tech - first.tech) + (last.cog - first.cog)) / 2,
\* the trend of every response is "increasing" if avgSlope > 0.15, else
\* "improving" if avgSlope < -0.10, else "unstable" if spikeCount > 3, else
\* "fluctuating".
C11_TrendPriority ==
    \A r \in C11_Summaries : r.trend = C11_StatedTrend(r)

\* The priority order itself: whenever avgSlope is not exactly 0.15 or -0.10
\* the trend is the stated one.
C11_TrendPriorityOffBoundary ==
    \A r \in C11_Summaries :
        C11_SlopeSum(r) \notin {30, -20} => r.trend = C11_StatedTrend(r)

\* the instance of the claim: avgSlope 0.2 with 5 spikes is "increasing"
C11_FiveSpikes ==
    \E r \in C11_Summaries :
        /\ C11_SlopeSum(r) = 40
        /\ r.spikeCount = 5
        /\ r.trend = "increasing"

\* more than 3 spikes decide the trend when neither slope check fires
C11_Unstable ==
    \E r \in C11_Summaries :
        /\ C11_SlopeSum(r) \in -19..29
        /\ r.spikeCount > 3
        /\ r.trend = "unstable"

\* the sum of recs[i][field] - recs[i - 1][field] over the records from
\* position i on (positions count from 1: record index + 1) that name made
RECURSIVE C14_Impact(_, _, _, _)
C14_Impact(recs, name, field, i) ==
    IF i > Len(recs) THEN 0
    ELSE (IF recs[i].author = name THEN recs[i][field] - recs[i - 1][field]
          ELSE 0)
         + C14_Impact(recs, name, field, i + 1)

C14_Entries(name) ==
    {k \in 1..Len(response.developers) : response.developers[k].name = name}

\* C14: for each author, techImpact and cogImpact are the sums of record i
\* minus record i - 1 over exactly the record indices i >= 1 of that author's
\* commits, the commit count counts exactly those indices, and an author who
\* made only the oldest record is no developer of the response.
C14_DeveloperImpact ==
    response.kind = "ok" =>
        \A name \in Authors :
            LET recs == response.commits
                made == {i \in 2..Len(recs) : recs[i].author = name}
            IN  /\ made = {} => C14_Entries(name) = {}
                /\ made # {} =>
                      /\ Cardinality(C14_Entries(name)) = 1
                      /\ \A k \in C14_Entries(name) :
                            LET d == response.developers[k]
                            IN  /\ d.techImpact = C14_Impact(recs, name, "techDebt", 2)
                                /\ d.cogImpact = C14_Impact(recs, name, "cogDebt", 2)
                                /\ d.commits = Cardinality(made)

\* the author of the oldest record made no other commit and is no developer;
\* the other author made two commits with a tech impact
C14_Witness ==
    /\ response.kind = "ok"
    /\ Len(response.commits) = 3
    /\ response.commits[1].author = "alice"
    /\ response.commits[1].techDebt > 10
    /\ Len(response.developers) = 1
    /\ response.developers[1].name = "bob"
    /\ response.developers[1].commits = 2
    /\ response.developers[1].techImpact # 0
    /\ response.developers[1].cogImpact # 0

-----------------------------------------------------------------------------
(* Replay: the accumulation of the same commits in two orders *)

Seed == [tech |-> Rat(1, 10), cog |-> Rat(1, 10), ai |-> Rat(5, 100)]

\* the accumulation of one fetched commit
Accumulate(s, detail) ==
    [tech |-> AccumulateTech(s.tech, detail),
     cog |-> AccumulateCog(s.cog, detail),
     ai |-> AccumulateAi(s.ai, detail)]

\* the running states after each commit of a sequence, oldest first
RECURSIVE Trajectory(_, _)
Trajectory(s, details) ==
    IF details = <<>> THEN <<>>
    ELSE <<Accumulate(s, Head(details))>>
         \o Trajectory(Accumulate(s, Head(details)), Tail(details))

\* The commits replayed: those of Details and a commit that replaces one line
\* of a file GitHub returns without a patch
ReplayDetails == Details \cup {Detail(<<NoPatch>>, 1, 1)}

RInit ==
    /\ hpc = "idle"
    /\ commits = <<>>
    /\ runningTech = Seed.tech
    /\ runningCog = Seed.cog
    /\ runningAi = Seed.ai
    /\ analyses = <<>>
    /\ lastFetch = "none"
    /\ lastDetail = NoDetail
    /\ response = NoResponse
    /\ \E p \in Details, c1 \in ReplayDetails, c2 \in ReplayDetails :
         replay = [prefix |-> p, first |-> c1, second |-> c2,
                   forward |-> <<>>, backward |-> <<>>]
    /\ timeline = NoTimeline
    /\ GraphIdle
    /\ UtilIdle
    /\ SnapshotIdle

\* After the prefix commit, accumulate first then second, and second then first
Replay ==
    /\ replay.forward = <<>>
    /\ LET s == Accumulate(Seed, replay.prefix)
       IN  replay' = [replay EXCEPT
                        !.forward = Trajectory(s, <<replay.first, replay.second>>),
                        !.backward = Trajectory(s, <<replay.second, replay.first>>)]
    /\ UNCHANGED <<hvars, timeline, gvars, svars, uvars>>

SpecReplay == RInit /\ [][Replay]_vars

C6_Raw(s, detail, field) ==
    RAdd(RMul(s, C3_GrowthFactor(detail.additions, detail.deletions)),
         NormalizedDelta(detail, field))

\* neither order reaches the clamp at 1
C6_Unclamped(s, c1, c2, field) ==
    /\ RLt(C6_Raw(s, c1, field), One) /\ RLt(C6_Raw(s, c2, field), One)
    /\ RLt(C6_Raw(C6_Raw(s, c1, field), c2, field), One)
    /\ RLt(C6_Raw(C6_Raw(s, c2, field), c1, field), One)

\* d1 * (g2 - 1) # d2 * (g1 - 1)
C6_OrderMatters(c1, c2, field) ==
    LET g1 == C3_GrowthFactor(c1.additions, c1.deletions)
        g2 == C3_GrowthFactor(c2.additions, c2.deletions)
        d1 == NormalizedDelta(c1, field)
        d2 == NormalizedDelta(c2, field)
    IN  RMul(d1, RAdd(g2, <<-1, 1>>)) # RMul(d2, RAdd(g1, <<-1, 1>>))

-----------------------------------------------------------------------------
(* Propagation graph: the inputs.  A path and an import reference are       *)
(* strings, modelled as sequences of characters.                            *)

PathA == <<"a">>

PathB == <<"b">>

PathAB == <<"a", "b">>

PathC == <<"c">>

Paths == {PathA, PathB, PathAB, PathC}

\* import ... from './a'
RefA == <<".", "/", "a">>

\* import ... from './b'
RefB == <<".", "/", "b">>

\* import ... from './', whose final segment is empty
RefDir == <<".", "/">>

\* import ... from 'x', a package outside the corpus
RefX == <<"x">>

\* a text with n imports of the same module
Repeat(ref, n) == [k \in 1..n |-> ref]

\* The import references a file's text may hold, in text order
ImportLists ==
    {<<>>, <<RefA>>, <<RefDir, RefX>>, Repeat(RefB, ManyImports - 2),
     Repeat(RefB, ManyImports)}

\* The scores and issue tags a FileAnalysis may carry, in hundredths
Profiles ==
    { [issues |-> {"t1", "t2", "t3"}, technicalDebt |-> 18, aiLikelihood |-> 15],
      [issues |-> {"t1", "t2", "t3", "t4", "t5", "t6"}, technicalDebt |-> 100,
       aiLikelihood |-> 100],
      [issues |-> {"t3", "t7"}, technicalDebt |-> 0, aiLikelihood |-> 5] }

\* The sequences of n pairwise distinct paths
DistinctPaths(n) ==
    {ps \in [1..n -> Paths] : \A i, j \in 1..n : i # j => ps[i] # ps[j]}

-----------------------------------------------------------------------------
(* Propagation graph: buildPropagationGraph *)

\* target.replace(/^[.\/]+/, '')
RECURSIVE StripLeading(_)
StripLeading(t) ==
    IF t # <<>> /\ Head(t) \in {".", "/"} THEN StripLeading(Tail(t)) ELSE t

\* t.split('/').pop() || ''
RECURSIVE LastSegment(_)
LastSegment(t) ==
    IF \E k \in 1..Len(t) : t[k] = "/" THEN LastSegment(Tail(t)) ELSE t

\* path.includes(seg)
Includes(path, seg) ==
    \E k \in 1..(Len(path) + 1) :
        /\ k + Len(seg) - 1 <= Len(path)
        /\ SubSeq(path, k, k + Len(seg) - 1) = seg

\* mutant: the last matching path wins
Resolve_LastMatch(fs, ref) ==
    LET seg == LastSegment(StripLeading(ref))
        hits == {i \in 1..Len(fs) : Includes(fs[i].file, seg)}
    IN  IF hits = {} THEN 0 ELSE CHOOSE i \in hits : \A j \in hits : i >= j

\* filePaths.find(f => f.includes(segment)): the index of the first match, or 0
Resolve(fs, ref) ==
    LET seg == LastSegment(StripLeading(ref))
        hits == {i \in 1..Len(fs) : Includes(fs[i].file, seg)}
    IN  IF hits = {} THEN 0 ELSE CHOOSE i \in hits : \A j \in hits : i <= j

Edge(source, target, weight, type) ==
    [source |-> source, target |-> target, weight |-> weight, type |-> type]

\* r((file.technicalDebt + file.aiLikelihood) / 2), in hundredths
ImportWeight(file) == Round100(Rat(file.technicalDebt + file.aiLikelihood, 200))

\* mutant: the test resolved !== file.file is missing
RECURSIVE ImportEdgesOf_SelfAllowed(_, _, _)
ImportEdgesOf_SelfAllowed(file, imports, fs) ==
    IF imports = <<>> THEN <<>>
    ELSE LET resolved == Resolve(fs, Head(imports))
         IN  (IF resolved # 0
              THEN <<Edge(file.file, fs[resolved].file, ImportWeight(file),
                          "import")>>
              ELSE <<>>)
             \o ImportEdgesOf_SelfAllowed(file, Tail(imports), fs)

\* the inner loop over the import matches of one file
RECURSIVE ImportEdgesOf(_, _, _)
ImportEdgesOf(file, imports, fs) ==
    IF imports = <<>> THEN <<>>
    ELSE LET resolved == Resolve(fs, Head(imports))
         IN  (IF resolved # 0 /\ fs[resolved].file # file.file
              THEN <<Edge(file.file, fs[resolved].file, ImportWeight(file),
                          "import")>>
              ELSE <<>>)
             \o ImportEdgesOf(file, Tail(imports), fs)

\* the first loop, over the files from index i on
RECURSIVE ImportEdges(_, _, _)
ImportEdges(fs, contents, i) ==
    IF i > Len(fs) THEN <<>>
    ELSE ImportEdgesOf(fs[i], contents[fs[i].file], fs)
         \o ImportEdges(fs, contents, i + 1)

\* files[i].issues.filter(iss => files[j].issues.includes(iss)).length
SharedCount(a, b) == Cardinality(a.issues \cap b.issues)

\* r(shared.length / 5), in hundredths
PatternWeight(shared) == Round100(Rat(shared, 5))

\* mutant: one shared tag is enough for a pattern edge
RECURSIVE PatternEdges_AnyShared(_, _, _)
PatternEdges_AnyShared(fs, i, j) ==
    IF i > Len(fs) THEN <<>>
    ELSE IF j > Len(fs) THEN PatternEdges_AnyShared(fs, i + 1, i + 2)
    ELSE (IF SharedCount(fs[i], fs[j]) >= 1
          THEN <<Edge(fs[i].file, fs[j].file,
                      PatternWeight(SharedCount(fs[i], fs[j])), "pattern")>>
          ELSE <<>>)
         \o PatternEdges_AnyShared(fs, i, j + 1)

\* the second loop, from the pair (i, j) on
RECURSIVE PatternEdges(_, _, _)
PatternEdges(fs, i, j) ==
    IF i > Len(fs) THEN <<>>
    ELSE IF j > Len(fs) THEN PatternEdges(fs, i + 1, i + 2)
    ELSE (IF SharedCount(fs[i], fs[j]) >= 2
          THEN <<Edge(fs[i].file, fs[j].file,
                      PatternWeight(SharedCount(fs[i], fs[j])),
                      "pattern")>>
          ELSE <<>>)
         \o PatternEdges(fs, i, j + 1)

\* the edge array before the cut
AllEdges(fs, contents) ==
    ImportEdges(fs, contents, 1) \o PatternEdges(fs, 1, 2)

\* the cap of edges.slice(0, 35)
EdgeCap == 35

\* mutant: the slice keeps one edge more
Cut_OneMore(es) == SubSeq(es, 1, Min(Len(es), EdgeCap + 1))

\* edges.slice(0, 35)
Cut(es) == SubSeq(es, 1, Min(Len(es), EdgeCap))

HistoryIdle ==
    /\ hpc = "idle"
    /\ commits = <<>>
    /\ runningTech = Rat(1, 10)
    /\ runningCog = Rat(1, 10)
    /\ runningAi = Rat(5, 100)
    /\ analyses = <<>>
    /\ lastFetch = "none"
    /\ lastDetail = NoDetail
    /\ response = NoResponse

GInit ==
    /\ HistoryIdle
    /\ replay = NoReplay
    /\ timeline = NoTimeline
    /\ gpc = "input"
    /\ \E n \in 1..MaxFiles :
         \E ps \in DistinctPaths(n), prof \in [1..n -> Profiles],
            imps \in [1..n -> ImportLists] :
             /\ fileAnalyses =
                  [i \in 1..n |->
                     [file |-> ps[i], technicalDebt |-> prof[i].technicalDebt,
                      aiLikelihood |-> prof[i].aiLikelihood,
                      issues |-> prof[i].issues]]
             /\ fileContents = [q \in {ps[i] : i \in 1..n} |->
                                  imps[CHOOSE i \in 1..n : ps[i] = q]]
    /\ edges = <<>>
    /\ propagation = <<>>
    /\ SnapshotIdle
    /\ UtilIdle

\* const propagation = buildPropagationGraph(fileAnalyses, fileContentsMap)
BuildPropagationGraph ==
    /\ gpc = "input"
    /\ gpc' = "built"
    /\ edges' = AllEdges(fileAnalyses, fileContents)
    /\ propagation' = Cut(AllEdges(fileAnalyses, fileContents))
    /\ UNCHANGED <<fileAnalyses, fileContents, hvars, replay, timeline,
                   svars, uvars>>

SpecGraph == GInit /\ [][BuildPropagationGraph]_vars

-----------------------------------------------------------------------------
(* Claims about the propagation graph, checked under SpecGraph *)

\* C7: every returned edge has a weight in [0,1], whatever the number of
\* issue tags two files share.
C7_EdgeWeightsInUnit ==
    \A k \in 1..Len(propagation) : propagation[k].weight \in 0..100

\* the (file, import) pairs that resolve to another file of the corpus
C8_ImportCandidates ==
    {<<i, k>> \in (1..Len(fileAnalyses)) \X (1..ManyImports) :
        /\ k <= Len(fileContents[fileAnalyses[i].file])
        /\ LET seg == LastSegment(StripLeading(fileContents[fileAnalyses[i].file][k]))
               hits == {j \in 1..Len(fileAnalyses) : Includes(fileAnalyses[j].file, seg)}
           IN  /\ hits # {}
               /\ \E j \in hits : j # i /\ \A h \in hits : j <= h}

\* the unordered pairs of files that share two issue tags or more
C8_PatternCandidates ==
    {<<i, j>> \in (1..Len(fileAnalyses)) \X (1..Len(fileAnalyses)) :
        /\ i < j
        /\ Cardinality(fileAnalyses[i].issues \cap fileAnalyses[j].issues) >= 2}

C8_Count(es, type) == Cardinality({k \in 1..Len(es) : es[k].type = type})

\* C8: at most 35 edges are returned, exactly 35 when more candidates exist;
\* they are the first 35 in insertion order, imports before patterns, so a
\* pattern edge is returned only if every import edge is.
C8_EdgeCap ==
    gpc = "built" =>
        LET nImport == Cardinality(C8_ImportCandidates)
            nPattern == Cardinality(C8_PatternCandidates)
        IN  /\ Len(propagation) <= 35
            /\ nImport + nPattern > 35 => Len(propagation) = 35
            /\ nImport + nPattern <= 35 => Len(propagation) = nImport + nPattern
            /\ \A k \in 1..Len(propagation) : propagation[k] = edges[k]
            /\ \A k, l \in 1..Len(propagation) :
                 k < l /\ propagation[k].type = "pattern"
                     => propagation[l].type = "pattern"
            /\ C8_Count(propagation, "pattern") > 0
                     => C8_Count(propagation, "import") = nImport

\* C8 witness: 34 import edges and 3 pattern edges arise, and the cut keeps
\* the imports and one pattern edge
C8_Witness ==
    /\ gpc = "built"
    /\ Len(edges) > 35
    /\ Len(propagation) = 35
    /\ C8_Count(edges, "pattern") = 3
    /\ C8_Count(propagation, "pattern") = 1

\* the pattern edges of the array es between the files i and j, either way
C9_PatternEdgesBetween(es, i, j) ==
    {k \in 1..Len(es) :
        /\ es[k].type = "pattern"
        /\ {es[k].source, es[k].target} = {fileAnalyses[i].file, fileAnalyses[j].file}}

\* C9: before the cut, a pattern edge is emitted for an unordered pair of
\* distinct files iff they share at least 2 issue tags, exactly one per
\* pair, with weight sharedTagCount / 5.
C9_PatternEdges ==
    gpc = "built" =>
        \A i, j \in 1..Len(fileAnalyses) :
            i < j =>
                LET shared == Cardinality(fileAnalyses[i].issues
                                            \cap fileAnalyses[j].issues)
                    found == C9_PatternEdgesBetween(edges, i, j)
                IN  /\ shared >= 2 => Cardinality(found) = 1
                    /\ shared < 2 => found = {}
                    /\ \A k \in found : 5 * edges[k].weight = 100 * shared

\* C9 witness: of three files, two share one tag only and two share three
C9_Witness ==
    /\ gpc = "built"
    /\ Len(fileAnalyses) = 3
    /\ Cardinality(fileAnalyses[1].issues \cap fileAnalyses[2].issues) = 1
    /\ Cardinality(fileAnalyses[2].issues \cap fileAnalyses[3].issues) = 3
    /\ C8_Count(edges, "pattern") = 1

\* file a imports file b: a reference of a's text names b's path
C10_Imports(a, b) ==
    \E k \in 1..Len(fileContents[fileAnalyses[a].file]) :
        LastSegment(StripLeading(fileContents[fileAnalyses[a].file][k]))
            = fileAnalyses[b].file

C10_Shared(a, b) == Cardinality(fileAnalyses[a].issues \cap fileAnalyses[b].issues)

C10_HasEdge(es, type, source, target) ==
    \E k \in 1..Len(es) :
        /\ es[k].type = type
        /\ es[k].source = fileAnalyses[source].file
        /\ es[k].target = fileAnalyses[target].file

C10_AnyEdge(es, source, target) ==
    \E k \in 1..Len(es) :
        /\ es[k].source = fileAnalyses[source].file
        /\ es[k].target = fileAnalyses[target].file

C10_Outcome(a, b, c) ==
    /\ C10_HasEdge(propagation, "import", a, b)
    /\ \/ C10_HasEdge(propagation, "pattern", b, c)
       \/ C10_HasEdge(propagation, "pattern", c, b)

C10_FirstMatch(b) ==
    \A h \in 1..Len(fileAnalyses) :
        h < b => ~Includes(fileAnalyses[h].file, fileAnalyses[b].file)

\* no reference of c's text resolves to a
C10_NoImportOf(c, a) ==
    \A k \in 1..Len(fileContents[fileAnalyses[c].file]) :
        LET seg == LastSegment(StripLeading(fileContents[fileAnalyses[c].file][k]))
        IN  \/ ~Includes(fileAnalyses[a].file, seg)
            \/ \E h \in 1..Len(fileAnalyses) :
                 h < a /\ Includes(fileAnalyses[h].file, seg)

-----------------------------------------------------------------------------
(* Snapshot analysis: the texts of a corpus                                  *)
(*                                                                         *)
(* The detectors read a text only through counts of regular-expression     *)
(* matches, line statistics and substring tests.  A text is modelled by    *)
(* those measurements; every score is then computed from them as the code  *)
(* computes it.  The two standard deviations are the values Math.sqrt      *)
(* returns, given as rationals.                                            *)

\* the text "x": one line, one token
TextOneLine ==
    [hasContent |-> TRUE, download |-> "ok",
     totalLines |-> 1, nonEmptyLines |-> 1,
     nonEmptyLenSum |-> 1, stdDev |-> <<0, 1>>, stdDevAll |-> <<0, 1>>,
     funcBodies |-> 0, uniqBodies |-> 0, topFreqSum |-> 1, tokens |-> 1,
     duplicated |-> 0, commentLines |-> 0, obviousComments |-> 0,
     genericNames |-> 0, chunks |-> <<>>, contains |-> {}, camel |-> 0,
     snake |-> 0, longParams |-> 0, magicNums |-> 0, hasTryCatch |-> FALSE,
     hasAsync |-> FALSE, importLines |-> 0, importsSorted |-> TRUE,
     typeAnnotations |-> 0, branches |-> 0, maxDepth |-> 0,
     longFunctions |-> 0, funcDecl |-> 0, dupeBlocks |-> 0, imports |-> 0,
     exports |-> 0, controlFlow |-> 0, identifiers |-> 0, idLenSum |-> 0,
     slashComments |-> 0, uselessComments |-> 0, hasHighLevel |-> FALSE,
     hasLowLevel |-> FALSE, funcOrArrow |-> 0, allIds |-> 1, shortIds |-> 1,
     genericIds |-> 1, funcNames |-> 0, funcNameLenSum |-> 0, funcCalls |-> 0,
     importRefs |-> <<>>]

\* a long text in which every heuristic of the three detectors fires
TextGenerated ==
    [hasContent |-> TRUE, download |-> "ok",
     totalLines |-> 400, nonEmptyLines |-> 350,
     nonEmptyLenSum |-> 14000, stdDev |-> <<3, 1>>, stdDevAll |-> <<12, 1>>,
     funcBodies |-> 10, uniqBodies |-> 2, topFreqSum |-> 500, tokens |-> 1000,
     duplicated |-> 20, commentLines |-> 100, obviousComments |-> 60,
     genericNames |-> 40, chunks |-> <<1, 2, 3, 4, 5>>,
     contains |-> {1, 2, 3, 4, 5}, camel |-> 10, snake |-> 10,
     longParams |-> 3, magicNums |-> 7, hasTryCatch |-> FALSE,
     hasAsync |-> TRUE, importLines |-> 6, importsSorted |-> TRUE,
     typeAnnotations |-> 30, branches |-> 30, maxDepth |-> 5,
     longFunctions |-> 4, funcDecl |-> 25, dupeBlocks |-> 2, imports |-> 6,
     exports |-> 1, controlFlow |-> 25, identifiers |-> 1000,
     idLenSum |-> 4000, slashComments |-> 90, uselessComments |-> 60,
     hasHighLevel |-> TRUE, hasLowLevel |-> TRUE, funcOrArrow |-> 20,
     allIds |-> 1200, shortIds |-> 100, genericIds |-> 50, funcNames |-> 10,
     funcNameLenSum |-> 60, funcCalls |-> 200, importRefs |-> <<RefB>>]

\* a text of middle size that repeats four chunks of TextGenerated and hits
\* the weaker tier of the two-tier checks
TextShared ==
    [hasContent |-> TRUE, download |-> "ok",
     totalLines |-> 500, nonEmptyLines |-> 250,
     nonEmptyLenSum |-> 7500, stdDev |-> <<12, 1>>, stdDevAll |-> <<16, 1>>,
     funcBodies |-> 3, uniqBodies |-> 2, topFreqSum |-> 60, tokens |-> 300,
     duplicated |-> 5, commentLines |-> 75, obviousComments |-> 25,
     genericNames |-> 3, chunks |-> <<1, 2, 3, 4, 6>>,
     contains |-> {1, 2, 3, 4, 6}, camel |-> 2, snake |-> 0,
     longParams |-> 0, magicNums |-> 1, hasTryCatch |-> TRUE,
     hasAsync |-> TRUE, importLines |-> 2, importsSorted |-> FALSE,
     typeAnnotations |-> 5, branches |-> 8, maxDepth |-> 4,
     longFunctions |-> 0, funcDecl |-> 5, dupeBlocks |-> 0, imports |-> 2,
     exports |-> 2, controlFlow |-> 10, identifiers |-> 500,
     idLenSum |-> 4000, slashComments |-> 75, uselessComments |-> 10,
     hasHighLevel |-> TRUE, hasLowLevel |-> FALSE, funcOrArrow |-> 5,
     allIds |-> 600, shortIds |-> 10, genericIds |-> 5, funcNames |-> 5,
     funcNameLenSum |-> 50, funcCalls |-> 50, importRefs |-> <<RefA, RefX>>]

\* a short irregular text: line lengths spread widely, no heuristic fires
TextHuman ==
    [hasContent |-> TRUE, download |-> "ok",
     totalLines |-> 60, nonEmptyLines |-> 50,
     nonEmptyLenSum |-> 1800, stdDev |-> <<45, 1>>, stdDevAll |-> <<50, 1>>,
     funcBodies |-> 4, uniqBodies |-> 4, topFreqSum |-> 30, tokens |-> 200,
     duplicated |-> 0, commentLines |-> 2, obviousComments |-> 0,
     genericNames |-> 0, chunks |-> <<7>>, contains |-> {7}, camel |-> 8,
     snake |-> 0, longParams |-> 0, magicNums |-> 0, hasTryCatch |-> TRUE,
     hasAsync |-> TRUE, importLines |-> 1, importsSorted |-> TRUE,
     typeAnnotations |-> 0, branches |-> 6, maxDepth |-> 3,
     longFunctions |-> 0, funcDecl |-> 4, dupeBlocks |-> 0, imports |-> 1,
     exports |-> 1, controlFlow |-> 8, identifiers |-> 150, idLenSum |-> 1500,
     slashComments |-> 2, uselessComments |-> 2, hasHighLevel |-> FALSE,
     hasLowLevel |-> TRUE, funcOrArrow |-> 4, allIds |-> 200, shortIds |-> 2,
     genericIds |-> 0, funcNames |-> 4, funcNameLenSum |-> 48,
     funcCalls |-> 30, importRefs |-> <<RefA>>]

\* a text whose score + 0.05 is 0.4, the boundary of the contribution map
TextBoundary ==
    [hasContent |-> TRUE, download |-> "ok",
     totalLines |-> 10, nonEmptyLines |-> 10,
     nonEmptyLenSum |-> 300, stdDev |-> <<30, 1>>, stdDevAll |-> <<30, 1>>,
     funcBodies |-> 3, uniqBodies |-> 1, topFreqSum |-> 60, tokens |-> 100,
     duplicated |-> 0, commentLines |-> 0, obviousComments |-> 0,
     genericNames |-> 0, chunks |-> <<>>, contains |-> {}, camel |-> 0,
     snake |-> 0, longParams |-> 0, magicNums |-> 0, hasTryCatch |-> FALSE,
     hasAsync |-> FALSE, importLines |-> 0, importsSorted |-> TRUE,
     typeAnnotations |-> 1, branches |-> 0, maxDepth |-> 1,
     longFunctions |-> 0, funcDecl |-> 3, dupeBlocks |-> 0, imports |-> 0,
     exports |-> 0, controlFlow |-> 0, identifiers |-> 30, idLenSum |-> 360,
     slashComments |-> 0, uselessComments |-> 0, hasHighLevel |-> FALSE,
     hasLowLevel |-> FALSE, funcOrArrow |-> 3, allIds |-> 30, shortIds |-> 0,
     genericIds |-> 0, funcNames |-> 3, funcNameLenSum |-> 36,
     funcCalls |-> 3, importRefs |-> <<>>]

\* a file whose download failed (no download_url, a status that is not ok, a
\* rejected fetch) or whose text is longer than 120000: no entry in the map
NoContent ==
    [TextOneLine EXCEPT !.hasContent = FALSE, !.download = "none"]

\* a file whose download returned the text "": an entry that is falsy
EmptyContent ==
    [TextOneLine EXCEPT !.hasContent = FALSE, !.totalLines = 0,
                        !.nonEmptyLines = 0, !.nonEmptyLenSum = 0,
                        !.topFreqSum = 0, !.tokens = 0]

Texts == {TextOneLine, TextGenerated, TextShared, TextHuman, TextBoundary}

\* ghFile.path of the files of the tree, in tree order
TreePaths == <<PathA, PathB, PathAB, PathC, <<"c", "a">>, <<"c", "b">>>>

\* the most files of a listing
MaxListed == 4

\* the texts of the longer listings
LongTexts == {TextOneLine, TextGenerated, TextShared, TextHuman}

\* the file lists fetchRepoFiles may return, each with what its download gave
Corpora ==
    UNION ( {[1..n -> Texts \cup {NoContent, EmptyContent}] : n \in 0..MaxFiles}
            \cup {[1..n -> LongTexts] : n \in (MaxFiles + 1)..MaxListed} )

-----------------------------------------------------------------------------
(* Snapshot analysis: detectAIPatterns *)

RSub(x, y) == RAdd(x, <<-y[1], y[2]>>)

RAbs(x) == <<Abs(x[1]), x[2]>>

RECURSIVE RSum(_)
RSum(xs) == IF xs = <<>> THEN Zero ELSE RAdd(Head(xs), RSum(Tail(xs)))

\* if (cond) { score += w; issues.push(tags) }, weights in hundredths
Hit(cond, w, tags) ==
    IF cond THEN [w |-> w, tags |-> tags] ELSE [w |-> 0, tags |-> {}]

\* if (strong) {...} else if (weak) {...}
Tier(strong, w1, tags1, weak, w2, tags2) ==
    IF strong THEN [w |-> w1, tags |-> tags1] ELSE Hit(weak, w2, tags2)

RECURSIVE SumWeights(_)
SumWeights(hits) ==
    IF hits = <<>> THEN 0 ELSE Head(hits).w + SumWeights(Tail(hits))

AllTags(hits) == UNION {hits[k].tags : k \in 1..Len(hits)}

\* sus, in hundredths
Sus(t) ==
    IF t.funcBodies >= 3
    THEN Round100(Rat(t.funcBodies - t.uniqBodies, t.funcBodies))
    ELSE 0

\* tdd, in hundredths
Tdd(t) == Round100(RMin(Rat(t.topFreqSum, Max(t.tokens, 1)), One))

\* pri, in hundredths: duplicated / Math.max(nonEmptyLines.length * 0.1, 1)
Pri(t) ==
    Round100(RMin(Rat(10 * t.duplicated, Max(t.nonEmptyLines, 10)), One))

\* crs, in hundredths
Crs(t) ==
    Round100(RMin(Rat(t.obviousComments, Max(t.commentLines, 1)), One))

\* 1 - stdDev / 30
entropyProxy(t) == RSub(One, RMul(t.stdDev, Rat(1, 30)))

\* scs, in hundredths
Scs(t) == Round100(RMax(Zero, entropyProxy(t)))

\* the chunks of a text found in another, different text of the corpus
crossFileMatches(t, allContents) ==
    Cardinality({k \in 1..Min(Len(t.chunks), 20) :
                   \E o \in 1..Len(allContents) :
                       /\ allContents[o] # t
                       /\ t.chunks[k] \in allContents[o].contains})

\* the checks of detectAIPatterns in source order
AiHits(t, allContents) ==
    << Tier(t.funcBodies >= 3 /\ Sus(t) > 50, 18,
            {"high structural uniformity"},
            t.funcBodies >= 3 /\ Sus(t) > 30, 8,
            {"moderate structural uniformity"}),
       Hit(Tdd(t) > 30, 10, {"skewed token distribution"}),
       Tier(Pri(t) > 30, 22, {"high pattern repetition"},
            Pri(t) > 10, 10, {"minor pattern repetition"}),
       Tier(Crs(t) > 50, 15, {"highly redundant comments"},
            Crs(t) > 30, 6, {"partially redundant comments"}),
       Tier(100 * t.commentLines > 20 * t.totalLines, 12,
            {"excessive comments"},
            100 * t.commentLines > 12 * t.totalLines, 5,
            {"high comment density"}),
       Tier(Scs(t) > 70 /\ t.nonEmptyLines > 20, 14,
            {"suspiciously uniform formatting"},
            Scs(t) > 50 /\ t.nonEmptyLines > 15, 6,
            {"very consistent style"}),
       Tier(t.genericNames > 0 /\ 1000 * t.genericNames > 8 * t.totalLines,
            18, {"overly generic naming"},
            t.genericNames > 0 /\ 1000 * t.genericNames > 4 * t.totalLines,
            8, {"partially generic naming"}),
       Hit(Len(allContents) > 1 /\ crossFileMatches(t, allContents) > 3, 12,
           {"repeated logic across files"}),
       Hit(t.camel > 5 /\ t.snake > 5, 8, {"inconsistent naming conventions"}),
       Hit(t.longParams > 2, 6, {"long parameter lists"}),
       Hit(t.magicNums > 6, 5, {"magic numbers"}),
       Hit(t.hasAsync /\ ~t.hasTryCatch, 10, {"missing error handling"}),
       Hit(t.importLines > 5 /\ t.importsSorted, 6,
           {"perfectly sorted imports"}),
       Hit(20 * t.typeAnnotations > t.totalLines, 7,
           {"excessive type annotations"}) >>

\* genericNames.length / Math.max(totalLines * 0.01, 1), at most 1
iasProxy(t) ==
    IF t.genericNames > 0
    THEN RMin(Rat(100 * t.genericNames, Max(t.totalLines, 100)), One)
    ELSE Zero

weightedAI(t) ==
    RSum(<< Rat(25 * Sus(t), 10000), Rat(20 * Pri(t), 10000),
            Rat(20 * Crs(t), 10000), RMul(iasProxy(t), Rat(15, 100)),
            RMul(RMax(Zero, entropyProxy(t)), Rat(20, 100)) >>)

\* mutant: the likelihood is not capped at 1
aiLikelihood_NoCap(t, allContents) ==
    RMax(Rat(SumWeights(AiHits(t, allContents)) + 5, 100), weightedAI(t))

\* Math.min(Math.max(score + 0.05, weightedAI), 1), before rounding
aiLikelihood(t, allContents) ==
    RMin(RMax(Rat(SumWeights(AiHits(t, allContents)) + 5, 100),
              weightedAI(t)), One)

\* The outcomes of aiLikelihood > 0.4.  The code sums the weights in doubles:
\* a likelihood that is 0.4 in exact arithmetic may come out a last digit
\* above it, so at equality both outcomes are kept.
ExceedsTwoFifths(x) ==
    IF x = Rat(2, 5) THEN BOOLEAN ELSE {RLt(Rat(2, 5), x)}

\* Math.round(aiLikelihood > 0.4 ? 45 + aiLikelihood * 55 : 8 + aiLikelihood * 35)
aiDebtContribution(x, above) ==
    LET v == IF above THEN RAdd(Rat(45, 1), RMul(x, Rat(55, 1)))
                      ELSE RAdd(Rat(8, 1), RMul(x, Rat(35, 1)))
    IN  Round100(RMul(v, Rat(1, 100)))

detectAIPatterns(t, allContents, above) ==
    [aiLikelihood |-> Round100(aiLikelihood(t, allContents)),
     issues |-> AllTags(AiHits(t, allContents)),
     aiDebtContribution |->
         aiDebtContribution(aiLikelihood(t, allContents), above),
     sus |-> Sus(t), tdd |-> Tdd(t), pri |-> Pri(t), crs |-> Crs(t),
     scs |-> Scs(t)]

-----------------------------------------------------------------------------
(* Snapshot analysis: detectTechnicalDebt *)

cyclomaticComplexity(t) == 1 + t.branches

\* the checks before the defect density proxy, in source order
TechHits(t) ==
    << IF cyclomaticComplexity(t) > 15
       THEN Hit(TRUE, 30, {"high cyclomatic complexity"})
       ELSE Tier(cyclomaticComplexity(t) > 8, 18,
                 {"moderate cyclomatic complexity"},
                 cyclomaticComplexity(t) > 5, 6, {}),
       IF t.maxDepth > 4
       THEN Hit(TRUE, 30, {"deep nesting (>4 levels)"})
       ELSE Tier(t.maxDepth > 3, 18, {"nesting at 4 levels"},
                 t.maxDepth > 2, 6, {}),
       Hit(t.longFunctions > 0, 20 * Min(t.longFunctions, 3),
           {"long functions (>50 lines)"}),
       IF t.nonEmptyLines > 300
       THEN Hit(TRUE, 25, {"large file (>300 LOC)"})
       ELSE Tier(t.nonEmptyLines > 200, 15, {"growing file (>200 LOC)"},
                 t.nonEmptyLines > 150, 5, {}),
       Hit(Max(t.funcDecl, 1) > 20, 10, {"poor modularization"}),
       Hit(t.dupeBlocks > 1, 15, {"duplicate code blocks"}) >>

\* ddp, in hundredths
Ddp(t) ==
    LET issueCount == Cardinality(AllTags(TechHits(t)))
                      + (IF cyclomaticComplexity(t) > 10 THEN 2 ELSE 0)
                      + (IF t.maxDepth > 3 THEN 1 ELSE 0)
    IN  Round100(RMin(Rat(100 * issueCount, Max(t.nonEmptyLines, 100)), One))

\* mds, in hundredths
Mds(t) == Round100(RMin(Rat(t.imports, 3 * Max(t.exports, 1)), One))

CouplingHit(t) == Hit(Mds(t) > 60, 10, {"high coupling / low cohesion"})

\* debt, in hundredths
debt(t) == SumWeights(TechHits(t)) + CouplingHit(t).w

\* Math.round(Math.min(debt, 1) * 100) / 100, in hundredths
technicalDebt(t) == Min(debt(t), 100)

detectTechnicalDebt(t) ==
    [technicalDebt |-> technicalDebt(t),
     cyclomaticComplexity |-> cyclomaticComplexity(t),
     nestingDepth |-> t.maxDepth, linesOfCode |-> t.nonEmptyLines,
     functions |-> Max(t.funcDecl, 1),
     techIssues |-> AllTags(TechHits(t)) \cup CouplingHit(t).tags,
     ddp |-> Ddp(t), mds |-> Mds(t)]

-----------------------------------------------------------------------------
(* Snapshot analysis: detectCognitiveDebt *)

\* Math.min(controlFlow / (totalLines * 0.12 + 1), 1)
Ccd(t) == RMin(Rat(100 * t.controlFlow, 12 * t.totalLines + 100), One)

avgIdLen(t) == Rat(t.idLenSum, Max(t.identifiers, 1))

Es(t) == RMin(RMul(avgIdLen(t), Rat(1, 12)), One)

\* Math.min(uselessComments / Math.max(commentLines.length, 1), 1)
uselessShare(t) ==
    RMin(Rat(t.uselessComments, Max(t.slashComments, 1)), One)

Aes(t) == RMin(RMul(t.stdDevAll, Rat(1, 40)), One)

\* rdi, in hundredths
Rdi(t) ==
    IF 10 * t.slashComments > 3 * t.totalLines THEN 80
    ELSE IF 100 * t.slashComments < 5 * t.totalLines THEN 55 ELSE 30

\* content.match(/function\s+\w+|=>\s*\{/g)?.length || 1
funcDecls(t) == Max(t.funcOrArrow, 1)

\* cli, in hundredths
Cli(t) ==
    LET branchingFactor == Rat(10 * t.controlFlow, Max(t.totalLines, 10))
        avgFuncLength == Rat(t.totalLines, funcDecls(t))
    IN  Round100(RMin(RMul(RSum(<<Rat(t.maxDepth, 1), branchingFactor,
                                  RMul(avgFuncLength, Rat(1, 50))>>),
                           Rat(1, 8)), One))

\* ias, in hundredths
Ias(t) ==
    Round100(RMin(Rat(10 * (t.shortIds + t.genericIds), Max(t.allIds, 10)),
                  One))

\* ags, in hundredths
Ags(t) ==
    LET avgFuncNameLen == Rat(t.funcNameLenSum, Max(t.funcNames, 1))
        complexityPerFunc == Rat(t.controlFlow, funcDecls(t))
    IN  Round100(RMin(RAbs(RSub(RMul(complexityPerFunc, Rat(1, 5)),
                                RMul(avgFuncNameLen, Rat(1, 15)))), One))

\* ri, in hundredths
Ri(t) ==
    LET avgLL == Rat(t.nonEmptyLenSum, Max(t.nonEmptyLines, 1))
    IN  Round100(RMin(RMul(RSum(<<RMul(avgLL, Rat(1, 80)), Rat(t.maxDepth, 6),
                                  RSub(One, Es(t))>>),
                           Rat(1, 3)), One))

\* csc, in hundredths: (imports + funcCalls / 5) / 20
Csc(t) == Round100(RMin(Rat(5 * t.imports + t.funcCalls, 100), One))

cogIssues(t) ==
    AllTags(<< Hit(RLt(Rat(6, 10), Ccd(t)), 0,
                   {"high cognitive complexity drift"}),
               Hit(RLt(avgIdLen(t), Rat(5, 1)), 0,
                   {"poor variable naming clarity"}),
               Hit(RLt(Rat(1, 2), uselessShare(t)), 0,
                   {"low comment usefulness"}),
               Hit(t.hasHighLevel /\ t.hasLowLevel, 0,
                   {"mixed abstraction levels"}),
               Hit(Cli(t) > 70, 0, {"high cognitive load index"}),
               Hit(Ias(t) > 50, 0, {"high identifier ambiguity"}),
               Hit(Ags(t) > 60, 0, {"high abstraction gap"}),
               Hit(Ri(t) > 60, 0, {"low readability index"}),
               Hit(Csc(t) > 70, 0, {"high context switching cost"}) >>)

\* the weighted sum of the nine components, before the cap
cognitiveSum(t) ==
    RSum(<< RMul(Ccd(t), Rat(15, 100)), RMul(RSub(One, Es(t)), Rat(1, 10)),
            RMul(Aes(t), Rat(1, 10)), Rat(Rdi(t), 1000),
            Rat(15 * Cli(t), 10000), Rat(Ias(t), 1000), Rat(Ags(t), 1000),
            Rat(Ri(t), 1000), Rat(Csc(t), 1000) >>)

\* dps, in hundredths, from techDebt and aiLikelihood in hundredths
Dps(techDebt, ai) == Round100(Rat(60 * techDebt + 40 * ai, 10000))

detectCognitiveDebt(t, techDebt, ai) ==
    [cognitiveDebt |-> Round100(RMin(cognitiveSum(t), One)),
     cogIssues |-> cogIssues(t),
     metrics |->
         [ccd |-> Round100(Ccd(t)), es |-> Round100(Es(t)),
          aes |-> Round100(Aes(t)), rdi |-> Rdi(t),
          dps |-> Dps(techDebt, ai),
          dli |-> Round100(RAdd(Rat(techDebt, 200), RMul(Ccd(t), Rat(1, 2)))),
          drf |-> Round100(RAdd(RMul(Aes(t), Rat(2, 5)),
                                Rat(3 * techDebt + 3 * ai, 1000)))],
     cli |-> Cli(t), ias |-> Ias(t), ags |-> Ags(t), ri |-> Ri(t),
     csc |-> Csc(t)]

-----------------------------------------------------------------------------
(* Snapshot analysis: the serve handler of analyze-repo *)

\* [...fileContentsMap.values()]: the texts of the files whose download
\* returned one, the empty text included
RECURSIVE allContentsOf(_)
allContentsOf(files) ==
    IF files = <<>> THEN <<>>
    ELSE (IF Head(files).content.download = "ok" THEN <<Head(files).content>>
          ELSE <<>>) \o allContentsOf(Tail(files))

\* the record pushed for one file
FileAnalysis(path, t, allContents, above) ==
    LET ai == detectAIPatterns(t, allContents, above)
        tech == detectTechnicalDebt(t)
        cog == detectCognitiveDebt(t, tech.technicalDebt, ai.aiLikelihood)
        allIssues == ai.issues \cup tech.techIssues \cup cog.cogIssues
        cp == Round100(RMin(Rat(Cardinality(allIssues), 8), One))
        tc == Round100(RMin(Rat(cp * tech.cyclomaticComplexity, 1000), One))
    IN  [file |-> path, aiLikelihood |-> ai.aiLikelihood,
         technicalDebt |-> tech.technicalDebt,
         cognitiveDebt |-> cog.cognitiveDebt,
         propagationScore |-> cog.metrics.dps, issues |-> allIssues,
         metrics |->
             [ccd |-> cog.metrics.ccd, es |-> cog.metrics.es,
              aes |-> cog.metrics.aes, rdi |-> cog.metrics.rdi,
              dps |-> cog.metrics.dps, dli |-> cog.metrics.dli,
              drf |-> cog.metrics.drf, cp |-> cp, ccn |-> tech.linesOfCode,
              tc |-> tc, ddp |-> tech.ddp, mds |-> tech.mds, cli |-> cog.cli,
              ias |-> cog.ias, ags |-> cog.ags, ri |-> cog.ri,
              csc |-> cog.csc, sus |-> ai.sus, tdd |-> ai.tdd,
              pri |-> ai.pri, crs |-> ai.crs, scs |-> ai.scs],
         linesOfCode |-> tech.linesOfCode, functions |-> tech.functions,
         cyclomaticComplexity |-> tech.cyclomaticComplexity,
         nestingDepth |-> tech.nestingDepth,
         aiDebtContribution |-> ai.aiDebtContribution]

RECURSIVE SumField(_, _)
SumField(fs, field) ==
    IF fs = <<>> THEN 0 ELSE Head(fs)[field] + SumField(Tail(fs), field)

\* r(sum / n), in hundredths
Average(fs, field) == Round100(Rat(SumField(fs, field), 100 * Len(fs)))

RECURSIVE totalIssues(_)
totalIssues(fs) ==
    IF fs = <<>> THEN 0
    ELSE Cardinality(Head(fs).issues) + totalIssues(Tail(fs))

\* mutant: the comparator is a - b, smallest sum first
RECURSIVE InsertTarget_Ascending(_, _)
InsertTarget_Ascending(sorted, f) ==
    IF sorted = <<>> THEN <<f>>
    ELSE IF Head(sorted).technicalDebt + Head(sorted).cognitiveDebt
            <= f.technicalDebt + f.cognitiveDebt
         THEN <<Head(sorted)>> \o InsertTarget_Ascending(Tail(sorted), f)
         ELSE <<f>> \o sorted

\* sort by technicalDebt + cognitiveDebt, largest first, ties in list order
RECURSIVE InsertTarget(_, _)
InsertTarget(sorted, f) ==
    IF sorted = <<>> THEN <<f>>
    ELSE IF Head(sorted).technicalDebt + Head(sorted).cognitiveDebt
            >= f.technicalDebt + f.cognitiveDebt
         THEN <<Head(sorted)>> \o InsertTarget(Tail(sorted), f)
         ELSE <<f>> \o sorted

RECURSIVE SortTargets(_, _)
SortTargets(fs, sorted) ==
    IF fs = <<>> THEN sorted
    ELSE SortTargets(Tail(fs), InsertTarget(sorted, Head(fs)))

topRefactorTargets(fs) ==
    LET sorted == SortTargets(fs, <<>>)
    IN  [k \in 1..Min(Len(sorted), 3) |-> sorted[k].file]

\* fileContentsMap, read by the graph builder for the import references
fileContentsMap(files) ==
    [q \in {files[i].path : i \in 1..Len(files)} |->
        LET f == files[CHOOSE i \in 1..Len(files) : files[i].path = q]
        IN  IF f.content.hasContent THEN f.content.importRefs ELSE <<>>]

SnapshotResult(fs, files) ==
    [kind |-> "ok", totalFiles |-> Len(fs), files |-> fs,
     propagation |-> Cut(AllEdges(fs, fileContentsMap(files))),
     summary |->
         [avgAiLikelihood |-> Average(fs, "aiLikelihood"),
          avgTechnicalDebt |-> Average(fs, "technicalDebt"),
          avgCognitiveDebt |-> Average(fs, "cognitiveDebt"),
          totalIssues |-> totalIssues(fs),
          highRiskFiles |->
              Cardinality({k \in 1..Len(fs) :
                             /\ fs[k].aiLikelihood > 50
                             /\ fs[k].technicalDebt > 40}),
          topRefactorTargets |-> topRefactorTargets(fs)]]

SInit ==
    /\ HistoryIdle
    /\ replay = NoReplay
    /\ timeline = NoTimeline
    /\ GraphIdle
    /\ UtilIdle
    /\ spc = "request"
    /\ \E corpus \in Corpora :
         ghFiles = [i \in 1..Len(corpus) |->
                      [path |-> TreePaths[i], content |-> corpus[i]]]
    /\ cursor = 1
    /\ snapshot = <<>>
    /\ result = [kind |-> "none", message |-> ""]
    /\ listing = NoListing

\* repoUrl is missing, parseOwnerRepo throws, or a GitHub request fails
SnapshotReject ==
    /\ spc = "request"
    /\ spc' = "done"
    /\ result' = ErrorResponse("GitHub API status")
    /\ UNCHANGED <<ghFiles, cursor, snapshot, listing, hvars,
                   replay, timeline, gvars, uvars>>

\* ghFiles.length === 0
NoCodeFiles ==
    /\ spc = "request"
    /\ ghFiles = <<>>
    /\ spc' = "done"
    /\ result' = ErrorResponse("No code files found in repository")
    /\ UNCHANGED <<ghFiles, cursor, snapshot, listing, hvars,
                   replay, timeline, gvars, uvars>>

\* the downloads settle and the loop over ghFiles starts
FetchContents ==
    /\ spc = "request"
    /\ ghFiles # <<>>
    /\ spc' = "files"
    /\ UNCHANGED <<ghFiles, cursor, snapshot, result, listing, hvars,
                   replay, timeline, gvars, uvars>>

\* one iteration of the loop for a file without entry in the map or with the
\* empty text: if (!content) continue
SkipFile ==
    /\ spc = "files"
    /\ cursor <= Len(ghFiles)
    /\ ~ghFiles[cursor].content.hasContent
    /\ cursor' = cursor + 1
    /\ UNCHANGED <<spc, ghFiles, snapshot, result, listing, hvars,
                   replay, timeline, gvars, uvars>>

\* one iteration of the loop for a file with text
AnalyzeFile ==
    /\ spc = "files"
    /\ cursor <= Len(ghFiles)
    /\ ghFiles[cursor].content.hasContent
    /\ LET t == ghFiles[cursor].content
           all == allContentsOf(ghFiles)
       IN  \E above \in ExceedsTwoFifths(aiLikelihood(t, all)) :
             snapshot' = Append(snapshot,
                 FileAnalysis(ghFiles[cursor].path, t, all, above))
    /\ cursor' = cursor + 1
    /\ UNCHANGED <<spc, ghFiles, result, listing, hvars,
                   replay, timeline, gvars, uvars>>

\* after the loop: the graph, the summary and the response
FinishSnapshot ==
    /\ spc = "files"
    /\ cursor > Len(ghFiles)
    /\ spc' = "done"
    /\ result' = IF snapshot = <<>>
                 THEN ErrorResponse("Could not analyze any files")
                 ELSE SnapshotResult(snapshot, ghFiles)
    /\ UNCHANGED <<ghFiles, cursor, snapshot, listing, hvars,
                   replay, timeline, gvars, uvars>>

SNext ==
    \/ SnapshotReject
    \/ NoCodeFiles
    \/ FetchContents
    \/ SkipFile
    \/ AnalyzeFile
    \/ FinishSnapshot

SpecSnapshot == SInit /\ [][SNext]_vars

-----------------------------------------------------------------------------
(* Claims about the snapshot analysis, checked under SpecSnapshot *)

C1_Returned == IF result.kind = "ok" THEN result.files ELSE <<>>

C1_InRange(f) ==
    /\ f.aiLikelihood \in 0..100
    /\ f.technicalDebt \in 0..100
    /\ f.cognitiveDebt \in 0..100
    /\ f.propagationScore \in 0..100
    /\ f.aiDebtContribution \in 0..100

\* C1: for every file the snapshot analysis pushes and returns, whatever its
\* text and whatever the other files of the corpus, aiLikelihood,
\* technicalDebt, cognitiveDebt and propagationScore (kept in hundredths) lie
\* in [0,1] and aiDebtContribution lies in [0,100].
C1_ScoresInRange ==
    /\ \A k \in 1..Len(snapshot) : C1_InRange(snapshot[k])
    /\ \A k \in 1..Len(C1_Returned) : C1_InRange(C1_Returned[k])

\* a response returns a file whose raw score and raw debt both exceed 1, next
\* to a file of another text
C1_Witness ==
    /\ result.kind = "ok"
    /\ Len(result.files) >= 2
    /\ \E k \in 1..Len(ghFiles) :
         /\ ghFiles[k].content.hasContent
         /\ SumWeights(AiHits(ghFiles[k].content, allContentsOf(ghFiles))) > 100
         /\ debt(ghFiles[k].content) > 100
         /\ \E j \in 1..Len(result.files) :
              /\ result.files[j].file = ghFiles[k].path
              /\ result.files[j].aiLikelihood = 100
              /\ result.files[j].technicalDebt = 100
              /\ result.files[j].aiDebtContribution = 100
    /\ \E j \in 1..Len(result.files) : result.files[j].aiLikelihood < 100

\* the positions of the listed files whose download returned a text of at
\* most 120000 characters
C15_Fetched == {k \in 1..Len(ghFiles) : ghFiles[k].content.download = "ok"}

\* the positions of the listed files whose entry in the map is a non-empty text
C15_Truthy == {k \in 1..Len(ghFiles) : ghFiles[k].content.hasContent}

\* the listed paths at the positions S, in list order
RECURSIVE C15_PathsAt(_, _)
C15_PathsAt(S, k) ==
    IF k > Len(ghFiles) THEN <<>>
    ELSE (IF k \in S THEN <<ghFiles[k].path>> ELSE <<>>)
         \o C15_PathsAt(S, k + 1)

\* the loop over the listed files has run and the response is made
C15_LoopDone == spc = "done" /\ ghFiles # <<>> /\ cursor > Len(ghFiles)

\* the response holds FileAnalysis records for exactly the files at S, and
\* is the failure "Could not analyze any files" exactly when S is empty
C15_Keeps(S) ==
    C15_LoopDone =>
        /\ result.kind = "ok" =>
              [k \in 1..Len(result.files) |-> result.files[k].file]
                  = C15_PathsAt(S, 1)
        /\ result.kind = "error" <=> S = {}
        /\ result.kind = "error" =>
              result.message = "Could not analyze any files"

\* C15: a file whose content fetch fails or whose content exceeds the size
\* ceiling is dropped, the response holds a FileAnalysis for every other
\* file, whose content was fetched, and the analysis ends with a failure only
\* when no file could be analysed.
C15_FetchedFilesAnalysed == C15_Keeps(C15_Fetched)

\* What the loop keeps: the files whose fetched text is not empty.
C15_NonEmptyFilesAnalysed == C15_Keeps(C15_Truthy)

\* a response for a corpus with a failed download between two analysed files
C15_PartialResult ==
    /\ C15_LoopDone
    /\ result.kind = "ok"
    /\ Len(ghFiles) = 3
    /\ ghFiles[2].content = NoContent
    /\ Len(result.files) = 2

\* the likelihood of the listed file with this path, before rounding
C19_Likelihood(path) ==
    LET k == CHOOSE k \in 1..Len(ghFiles) : ghFiles[k].path = path
    IN  aiLikelihood(ghFiles[k].content, allContentsOf(ghFiles))

\* round(8 + 35 L) below 0.4, round(45 + 55 L) at or above
C19_StatedMap(x) ==
    IF RLe(Rat(2, 5), x)
    THEN Round100(RAdd(Rat(45, 100), RMul(x, Rat(55, 100))))
    ELSE Round100(RAdd(Rat(8, 100), RMul(x, Rat(35, 100))))

\* C19: the aiDebtContribution of every analysed file is round(8 + 35 L) when
\* its aiLikelihood L is below 0.4 and round(45 + 55 L) when L is at or
\* above 0.4.
C19_TwoPieceMap ==
    \A k \in 1..Len(snapshot) :
        snapshot[k].aiDebtContribution
            = C19_StatedMap(C19_Likelihood(snapshot[k].file))

\* What holds: the stated map for every likelihood other than 0.4.
C19_TwoPieceMapOffBoundary ==
    \A k \in 1..Len(snapshot) :
        C19_Likelihood(snapshot[k].file) # Rat(2, 5) =>
            snapshot[k].aiDebtContribution
                = C19_StatedMap(C19_Likelihood(snapshot[k].file))

\* both pieces are applied, and a file of likelihood 0.4 gets 8 + 35 * 0.4
C19_BothPieces ==
    /\ \E k \in 1..Len(snapshot) :
         /\ RLt(C19_Likelihood(snapshot[k].file), Rat(2, 5))
         /\ snapshot[k].aiDebtContribution < 22
    /\ \E k \in 1..Len(snapshot) :
         /\ RLt(Rat(2, 5), C19_Likelihood(snapshot[k].file))
         /\ snapshot[k].aiDebtContribution > 67
    /\ \E k \in 1..Len(snapshot) :
         /\ C19_Likelihood(snapshot[k].file) = Rat(2, 5)
         /\ snapshot[k].aiDebtContribution = 22

\* the sub-scores of the metrics bundle kept in hundredths
C20_Scores ==
    {"ccd", "es", "aes", "rdi", "dps", "dli", "drf", "cp", "tc", "ddp", "mds",
     "cli", "ias", "ags", "ri", "csc", "sus", "tdd", "pri", "crs", "scs"}

\* C20: every sub-score of the metrics bundle of every returned FileAnalysis
\* lies in [0,1]; ccn is kept as the number the code assigns.
C20_SubScoresInUnit ==
    \A k \in 1..Len(C1_Returned) :
        /\ \A name \in C20_Scores : C1_Returned[k].metrics[name] \in 0..100
        /\ C1_Returned[k].metrics.ccn \in 0..1

\* What holds: every sub-score other than ccn lies in [0,1], and ccn is the
\* number of non-blank lines.
C20_SubScoresButChurn ==
    \A k \in 1..Len(C1_Returned) :
        /\ \A name \in C20_Scores : C1_Returned[k].metrics[name] \in 0..100
        /\ C1_Returned[k].metrics.ccn = C1_Returned[k].linesOfCode

\* a returned file of 350 non-blank lines
C20_LargeFile ==
    \E k \in 1..Len(C1_Returned) :
        /\ C1_Returned[k].metrics.ccn = 350
        /\ C1_Returned[k].linesOfCode = 350

C22_Sum(f) == f.technicalDebt + f.cognitiveDebt

\* the positions of the returned files a target list names
C22_Listed(targets) ==
    {k \in 1..Len(result.files) :
        \E j \in 1..Len(targets) : targets[j] = result.files[k].file}

\* C22: highRiskFiles is the number of returned files with aiLikelihood > 0.5
\* and technicalDebt > 0.4; topRefactorTargets lists min(3, n) files, each
\* with technicalDebt + cognitiveDebt at least that of every file not listed;
\* the returned files stay in the order they were analysed in.
C22_Summary ==
    result.kind = "ok" =>
        LET fs == result.files
            targets == result.summary.topRefactorTargets
            listed == C22_Listed(targets)
        IN  /\ result.summary.highRiskFiles
                  = Cardinality({k \in 1..Len(fs) :
                                   /\ fs[k].aiLikelihood > 50
                                   /\ fs[k].technicalDebt > 40})
            /\ Len(targets) = Min(3, Len(fs))
            /\ Cardinality(listed) = Len(targets)
            /\ \A k \in listed : \A o \in (1..Len(fs)) \ listed :
                  C22_Sum(fs[k]) >= C22_Sum(fs[o])
            /\ fs = snapshot
            /\ [k \in 1..Len(fs) |-> fs[k].file] = C15_PathsAt(C15_Truthy, 1)

\* four returned files, the first with the largest sum and the second with
\* the smallest, which is left out; some but not all files are high-risk
C22_Witness ==
    /\ result.kind = "ok"
    /\ Len(result.files) = 4
    /\ \A k \in 2..4 : C22_Sum(result.files[k]) < C22_Sum(result.files[1])
    /\ \A k \in {1, 3, 4} : C22_Sum(result.files[k]) > C22_Sum(result.files[2])
    /\ C22_Sum(result.files[3]) < C22_Sum(result.files[4])
    /\ C22_Listed(result.summary.topRefactorTargets) = {1, 3, 4}
    /\ result.summary.topRefactorTargets[2] = result.files[4].file
    /\ result.summary.highRiskFiles \in 1..3

-----------------------------------------------------------------------------
(* Timeline: the history analysis of a whole commit sequence                 *)
(*                                                                         *)
(* The same serve handler as under Spec, run in one step over a commit      *)
(* sequence drawn at the start, every detail fetch succeeding: longer       *)
(* histories than Spec explores, over fewer kinds of commit.               *)

\* the longest commit sequence over every kind of commit
ShortTimeline == 5

\* the longest commit sequence
MaxTimeline == 7

\* 60 added lines with 4 braces and 25 branches, nothing removed
PatchHeavy == Patch(TRUE, <<60, 0>>, <<4, 0>>, <<25, 0>>, NoSignals, NoFlags)

\* 120 added plain lines, nothing removed
PatchLong == Patch(TRUE, <<120, 0>>, <<0, 0>>, <<0, 0>>, NoSignals, NoFlags)

\* six lines replaced, six generic names among the new ones
PatchGeneric ==
    Patch(TRUE, <<6, 6>>, <<0, 0>>, <<0, 0>>, <<0, 6, 0, 0>>, NoFlags)

\* 130 added lines with 4 braces and 40 branches: 0.15 + 0.8 + 0.1 + 0.15
PatchCapped == Patch(TRUE, <<130, 0>>, <<4, 0>>, <<40, 0>>, NoSignals, NoFlags)

\* The commits of a timeline: one-file commits, a commit adding 150 lines to a
\* file GitHub returns without a patch, a commit of two files scoring more
\* than 1 each before the cap, and a commit without files
TimelineDetails ==
    { Detail(<<PatchHeavy>>, 60, 0),
      Detail(<<PatchLong>>, 120, 0),
      Detail(<<PatchGeneric>>, 6, 6),
      Detail(<<PatchShrink>>, 0, 5),
      Detail(<<NoPatch>>, 150, 0),
      Detail(<<PatchCapped, PatchCapped>>, 260, 0),
      Detail(<<>>, 0, 0) }

\* the kinds of commit of the longer sequences
LongDetails ==
    { Detail(<<PatchHeavy>>, 60, 0),
      Detail(<<PatchGeneric>>, 6, 6),
      Detail(<<PatchShrink>>, 0, 5) }

\* the commit sequences, oldest first
Histories ==
    UNION ( {[1..n -> TimelineDetails] : n \in 1..ShortTimeline}
            \cup {[1..n -> LongDetails] : n \in (ShortTimeline + 1)..MaxTimeline} )

\* the records the loop pushes for the commits from index i on
RECURSIVE TimelineRecords(_, _, _)
TimelineRecords(s, details, i) ==
    IF i > Len(details) THEN <<>>
    ELSE LET next == Accumulate(s, details[i])
         IN  <<Record([date |-> i, author |-> "alice"], next.tech, next.cog,
                      next.ai, details[i])>>
             \o TimelineRecords(next, details, i + 1)

TInit ==
    /\ HistoryIdle
    /\ replay = NoReplay
    /\ \E h \in Histories : timeline = [details |-> h, summary |-> NoResponse]
    /\ GraphIdle
    /\ UtilIdle
    /\ SnapshotIdle

\* the loop over the commits, then spikes, developers, trend, momentum and
\* prediction
AnalyzeHistory ==
    /\ timeline.summary.kind = "none"
    /\ LET recs == TimelineRecords(Seed, timeline.details, 1)
       IN  \E slope \in SlopeOutcomes(recs) :
             \E half \in HalfOutcomes(recs) :
               timeline' =
                   [timeline EXCEPT !.summary = Summary(recs, slope, half)]
    /\ UNCHANGED <<hvars, replay, gvars, svars, uvars>>

SpecTimeline == TInit /\ [][AnalyzeHistory]_vars

-----------------------------------------------------------------------------
(* Claims about whole histories, checked under SpecTimeline *)

C12_Analyzed == timeline.summary.kind = "ok"

C12_SlopeSum ==
    techSlope(timeline.summary.commits) + cogSlope(timeline.summary.commits)

\* commit k adds more than 100 net lines and deletes none
C12_AddsOver100(k) ==
    /\ timeline.details[k].additions - timeline.details[k].deletions > 100
    /\ timeline.details[k].deletions = 0

C12_Outcome ==
    /\ timeline.summary.spikeCount >= 2
    /\ C12_SlopeSum > 30 => timeline.summary.trend = "increasing"

\* C12 as stated: in any 5-commit history whose commits 2 and 4 each add more
\* than 100 net lines with no deletions, spikeCount >= 2, and the trend is
\* "increasing" whenever the first-to-last slope exceeds 0.15.
C12_ScenarioAnyHistory ==
    /\ C12_Analyzed
    /\ Len(timeline.details) = 5
    /\ C12_AddsOver100(2)
    /\ C12_AddsOver100(4)
    => C12_Outcome

\* commit k changes one file, whose patch adds more than 100 net lines, and
\* the techDebt recorded before it is at most 0.91
C12_OneLongPatch(k) ==
    /\ C12_AddsOver100(k)
    /\ Len(timeline.details[k].files) = 1
    /\ timeline.details[k].files[1].hasPatch
    /\ timeline.details[k].files[1].addedLines
         - timeline.details[k].files[1].removedLines > 100
    /\ timeline.summary.commits[k - 1].techDebt <= 91

\* C12, amended: in a 5-commit history whose commits 2 and 4 each change a
\* single file by a patch that adds more than 100 net lines and deletes none,
\* the techDebt recorded before each of them being at most 0.91, the summary
\* has spikeCount >= 2, and the trend is "increasing" whenever the
\* first-to-last slope exceeds 0.15.
C12_Scenario ==
    /\ C12_Analyzed
    /\ Len(timeline.details) = 5
    /\ C12_OneLongPatch(2)
    /\ C12_OneLongPatch(4)
    => C12_Outcome

\* such a history with exactly the two spikes and a slope above 0.15
C12_Witness ==
    /\ C12_Analyzed
    /\ Len(timeline.details) = 5
    /\ C12_OneLongPatch(2)
    /\ C12_OneLongPatch(4)
    /\ timeline.summary.spikeCount = 2
    /\ timeline.summary.commits[2].isSpike
    /\ timeline.summary.commits[4].isSpike
    /\ C12_SlopeSum > 30
    /\ timeline.summary.trend = "increasing"

\* the three deltas of a commit after "Normalize by files"
C13_Deltas(detail) ==
    {NormalizedDelta(detail, f) : f \in {"techDelta", "cogDelta", "aiDelta"}}

\* C13: for every commit, the techDelta, cogDelta and aiDelta that enter the
\* recurrence after normalization each lie in [0,1], the divisor of the
\* normalization is never zero, and a commit with zero changed files
\* contributes zero deltas.
C13_NormalizedDeltas ==
    C12_Analyzed =>
        \A k \in 1..Len(timeline.details) :
            LET detail == timeline.details[k]
            IN  /\ \A x \in C13_Deltas(detail) : x[2] > 0 /\ InUnit(x)
                /\ Len(detail.files) = 0 => C13_Deltas(detail) = {Zero}

\* a history with a commit whose techDelta is exactly 1 after normalization
\* (two files capped at 1 each), a commit dividing by a file without patch
\* and a commit without files
C13_Witness ==
    /\ C12_Analyzed
    /\ \E k \in 1..Len(timeline.details) :
           /\ Len(timeline.details[k].files) = 2
           /\ NormalizedDelta(timeline.details[k], "techDelta") = One
    /\ \E k \in 1..Len(timeline.details) :
           /\ Len(timeline.details[k].files) = 0
           /\ timeline.summary.commits[k].filesChanged = 0
    /\ \E k \in 1..Len(timeline.details) :
           /\ Len(timeline.details[k].files) = 1
           /\ RLt(Zero, NormalizedDelta(timeline.details[k], "cogDelta"))

\* the window of the momentum: the last 5 records, or all if fewer
C23_Window(r) ==
    SubSeq(r.commits, Max(1, Len(r.commits) - 4), Len(r.commits))

\* the rise of techDebt over the window, in hundredths
C23_Rise(r) ==
    C23_Window(r)[Len(C23_Window(r))].techDebt - C23_Window(r)[1].techDebt

\* the momentum the stated rule gives, recentSlope compared exactly
C23_StatedMomentum(r) ==
    IF Len(C23_Window(r)) = 1 THEN "stable"
    ELSE IF C23_Rise(r) > 5 * Len(C23_Window(r)) THEN "fast"
    ELSE IF C23_Rise(r) > 0 THEN "slow"
    ELSE "stable"

\* the responses of the history analysis, step by step or in one action
C23_Summaries == {r \in {response, timeline.summary} : r.kind = "ok"}

\* C23: with recentSlope = (techDebt of the last record - techDebt of the
\* first record of the window) / window size over the last 5 records,
\* momentum is "fast" if recentSlope > 0.05, "slow" if recentSlope > 0, else
\* "stable", and a single-record history is "stable".
C23_Momentum ==
    \A r \in C23_Summaries : r.momentum = C23_StatedMomentum(r)

\* What holds: the stated rule whenever recentSlope is not exactly 0.05.
C23_MomentumOffBoundary ==
    \A r \in C23_Summaries :
        C23_Rise(r) # 5 * Len(C23_Window(r)) =>
            r.momentum = C23_StatedMomentum(r)

\* the three outcomes on windows of 5 records of longer histories
C23_Reached(m) ==
    \E r \in C23_Summaries :
        /\ Len(r.commits) > 5
        /\ r.momentum = m
        /\ C23_Rise(r) # r.commits[Len(r.commits)].techDebt - r.commits[1].techDebt

C23_Fast == C23_Reached("fast")

C23_Slow == C23_Reached("slow")

C23_Stable == C23_Reached("stable")

\* clamp(last + (last - first) / 2, 0, 1) in two-hundredths
C21_Plus5(first, last) == Min(Max(3 * last - first, 0), 200)

\* clamp(last + (last - first), 0, 1) in hundredths
C21_Plus10(first, last) == Min(Max(2 * last - first, 0), 100)

\* the four predictions against the stated lines, each within tol
\* two-hundredths
C21_Extrapolated(tol) ==
    C12_Analyzed =>
        LET recs == timeline.summary.commits
            first == recs[1]
            last == recs[Len(recs)]
            p == timeline.summary.prediction
        IN  /\ Abs(2 * p.techDebt5 - C21_Plus5(first.techDebt, last.techDebt)) <= tol
            /\ Abs(2 * p.cogDebt5 - C21_Plus5(first.cogDebt, last.cogDebt)) <= tol
            /\ p.techDebt10 = C21_Plus10(first.techDebt, last.techDebt)
            /\ p.cogDebt10 = C21_Plus10(first.cogDebt, last.cogDebt)
            /\ \A q \in {p.techDebt5, p.techDebt10, p.cogDebt5, p.cogDebt10} :
                  q \in 0..100

\* C21 as stated: techDebt+5 = clamp(last.tech + 0.5 (last.tech - first.tech),
\* 0, 1) and techDebt+10 = clamp(last.tech + (last.tech - first.tech), 0, 1),
\* likewise for cognitive debt, and all four lie in [0,1].
C21_ExactExtrapolation == C21_Extrapolated(0)

\* C21: the four predictions are the stated clamped lines rounded to two
\* decimals: the 10-commit predictions equal them, the 5-commit predictions
\* are within 0.005 of them, and all four lie in [0,1].
C21_RoundedExtrapolation == C21_Extrapolated(1)

\* a history whose tech line is cut at 1 and whose 5-commit cog line falls
\* half way between two hundredths
C21_Witness ==
    /\ C12_Analyzed
    /\ LET recs == timeline.summary.commits
           first == recs[1]
           last == recs[Len(recs)]
       IN  /\ 2 * last.techDebt - first.techDebt > 100
           /\ timeline.summary.prediction.techDebt10 = 100
           /\ (last.cogDebt - first.cogDebt) % 2 = 1
           /\ 3 * last.cogDebt - first.cogDebt < 200

-----------------------------------------------------------------------------
(* Source fetcher: fetchRepoFiles over a repository tree *)

\* the most items of the root listing
MaxItems == 3

\* the number of code files of a large directory
BigDir == 41

\* files.length < 40, files.length >= 40, files.slice(0, 40)
FileCap == 40

CODE_EXTENSIONS ==
    {".ts", ".tsx", ".js", ".jsx", ".py", ".java", ".go", ".rs", ".rb", ".php",
     ".c", ".cpp", ".h", ".hpp", ".cs", ".swift", ".kt", ".scala", ".vue",
     ".svelte"}

\* the directory names fetchRepoFiles does not enter
ExcludedDirs ==
    {"node_modules", "vendor", "dist", "build", ".git", "__pycache__",
     "coverage"}

\* item.name.startsWith('.') for the names of the trees
StartsWithDot(name) == name \in {".git", ".github"}

\* An item of a contents listing.  ext is the extension of a file's path,
\* ok tells whether the listing request of a directory succeeds, items is
\* that listing.
Item(type, name, ext, size, ok, items) ==
    [type |-> type, name |-> name, ext |-> ext, size |-> size, ok |-> ok,
     items |-> items]

FileItem(ext, size) == Item("file", "f", ext, size, TRUE, <<>>)

DirItem(name, ok, items) == Item("dir", name, "", 0, ok, items)

CodeFiles(n) == [k \in 1..n |-> FileItem(".ts", 100)]

\* the items a root listing is made of
RootItems ==
    { FileItem(".ts", 100),
      FileItem(".md", 100),
      FileItem(".py", 200000),
      DirItem("src", TRUE, CodeFiles(BigDir)),
      DirItem("pkg", TRUE, CodeFiles(2)),
      DirItem("lib", TRUE,
              <<FileItem(".go", 100), DirItem("deep", TRUE, CodeFiles(BigDir))>>),
      DirItem("node_modules", TRUE, CodeFiles(1)),
      DirItem(".github", TRUE, CodeFiles(1)),
      DirItem("api", FALSE, <<>>) }

RootListings == UNION {[1..n -> RootItems] : n \in 0..MaxItems}

isCodeFile(item) == item.ext \in CODE_EXTENSIONS

\* the first branch of the loop body
Pushed(item) ==
    item.type = "file" /\ isCodeFile(item) /\ item.size < 200000

\* the second branch of the loop body, before the test of files.length
Entered(item) ==
    /\ item.type = "dir"
    /\ ~StartsWithDot(item.name)
    /\ item.name \notin ExcludedDirs

\* A call of fetchRepoFiles for the listing items at path; a path is the
\* sequence of the positions of the items leading to it.  The call returns
\* ok = FALSE when fetchGitHub throws, else the files; calls lists this call
\* and the calls it made, each with its path, its outcome and the number of
\* files it returned.
RECURSIVE fetchRepoFiles(_, _, _)
RECURSIVE FetchLoop(_, _, _, _)
FetchLoop(items, path, i, acc) ==
    IF i > Len(items) THEN acc
    ELSE LET item == items[i]
             sub == fetchRepoFiles(item.ok, item.items, Append(path, i))
             next ==
                 IF Pushed(item)
                 THEN [acc EXCEPT !.files = Append(@, [path |-> Append(path, i)])]
                 ELSE IF Entered(item) /\ Len(acc.files) < FileCap
                 THEN [files |-> IF sub.ok THEN acc.files \o sub.files
                                 ELSE acc.files,
                       calls |-> acc.calls \o sub.calls]
                 ELSE acc
         IN  IF Len(next.files) >= FileCap THEN next
             ELSE FetchLoop(items, path, i + 1, next)

\* mutant: the final slice(0, 40) is missing
fetchRepoFiles_NoSlice(ok, items, path) ==
    IF ~ok
    THEN [ok |-> FALSE, files |-> <<>>,
          calls |-> <<[path |-> path, ok |-> FALSE, returned |-> 0]>>]
    ELSE LET loop == FetchLoop(items, path, 1, [files |-> <<>>, calls |-> <<>>])
         IN  [ok |-> TRUE, files |-> loop.files,
              calls |-> <<[path |-> path, ok |-> TRUE,
                           returned |-> Len(loop.files)]>> \o loop.calls]

fetchRepoFiles(ok, items, path) ==
    IF ~ok
    THEN [ok |-> FALSE, files |-> <<>>,
          calls |-> <<[path |-> path, ok |-> FALSE, returned |-> 0]>>]
    ELSE LET loop == FetchLoop(items, path, 1, [files |-> <<>>, calls |-> <<>>])
             files == SubSeq(loop.files, 1, Min(Len(loop.files), FileCap))
         IN  [ok |-> TRUE, files |-> files,
              calls |-> <<[path |-> path, ok |-> TRUE,
                           returned |-> Len(files)]>> \o loop.calls]

\* The handler starts with a repository whose metadata request and root
\* listing succeed or fail.
FInit ==
    /\ HistoryIdle
    /\ replay = NoReplay
    /\ timeline = NoTimeline
    /\ GraphIdle
    /\ UtilIdle
    /\ spc = "request"
    /\ ghFiles = <<>>
    /\ cursor = 1
    /\ snapshot = <<>>
    /\ result = [kind |-> "none", message |-> ""]
    /\ \E items \in RootListings, info \in BOOLEAN, root \in BOOLEAN :
         listing = [items |-> items, repoInfoOk |-> info, rootOk |-> root,
                    calls |-> <<>>, files |-> <<>>]

\* what the handler makes of the metadata request and of the listing: the
\* catch answers with the message of the error thrown
ListingResult(info, got) ==
    IF ~info \/ ~got.ok THEN ErrorResponse("GitHub API status")
    ELSE IF got.files = <<>>
    THEN ErrorResponse("No code files found in repository")
    ELSE [kind |-> "listed", message |-> ""]

\* The handler up to the test of ghFiles.length: the metadata request, then
\* the listing.
ListFiles ==
    /\ spc = "request"
    /\ LET got == fetchRepoFiles(listing.rootOk, listing.items, <<>>)
           answer == ListingResult(listing.repoInfoOk, got)
       IN  /\ listing' = IF listing.repoInfoOk
                         THEN [listing EXCEPT !.calls = got.calls,
                                              !.files = got.files]
                         ELSE listing
           /\ result' = answer
           /\ spc' = IF answer.kind = "listed" THEN "listed" ELSE "done"
    /\ UNCHANGED <<ghFiles, cursor, snapshot, hvars, replay, timeline, gvars,
                   uvars>>

SpecFetch == FInit /\ [][ListFiles]_vars

-----------------------------------------------------------------------------
(* Claims about the source fetcher, checked under SpecFetch *)

\* the listing ran: the metadata request succeeded
C16_Listed == spc \in {"done", "listed"} /\ listing.calls # <<>>

\* the requests of the source fetcher that returned a non-success status
C16_FailedRequests ==
    {k \in 1..Len(listing.calls) : ~listing.calls[k].ok}

\* C16: a run in which a request of the source fetcher returned a
\* non-success status is never answered as a repository with zero matching
\* files; that answer has its own message.
C16_FailureNeverEmptyResult ==
    C16_Listed /\ C16_FailedRequests # {} =>
        result # ErrorResponse("No code files found in repository")

\* What holds: a failure of the metadata request or of the root listing is
\* answered with the message of the failed request.
C16_TopLevelFailure ==
    spc \in {"done", "listed"} /\ (~listing.repoInfoOk \/ ~listing.rootOk) =>
        result = ErrorResponse("GitHub API status")

\* the empty result of a tree whose requests all succeeded
C16_EmptyResult ==
    /\ C16_Listed
    /\ C16_FailedRequests = {}
    /\ listing.items # <<>>
    /\ result = ErrorResponse("No code files found in repository")

\* C17: every call of fetchRepoFiles, at every level of the recursion,
\* returns at most 40 file descriptors.
C17_AtMostForty ==
    /\ Len(listing.files) <= 40
    /\ \A k \in 1..Len(listing.calls) : listing.calls[k].returned <= 40

\* the root call and a call two levels down each cut their list to 40
C17_Witness ==
    /\ spc = "listed"
    /\ Len(listing.files) = 40
    /\ \E k \in 1..Len(listing.calls) :
         /\ Len(listing.calls[k].path) = 2
         /\ listing.calls[k].returned = 40
    /\ \E k \in 1..Len(listing.files) : Len(listing.files[k].path) = 1
    /\ \E k \in 1..Len(listing.files) : Len(listing.files[k].path) = 3

\* the paths of the files of a listing that pass the file test and lie in
\* directories that are entered and whose listing succeeds
RECURSIVE C18_Eligible(_, _, _)
C18_Eligible(items, path, i) ==
    IF i > Len(items) THEN {}
    ELSE (IF Pushed(items[i]) THEN {Append(path, i)}
          ELSE IF Entered(items[i]) /\ items[i].ok
          THEN C18_Eligible(items[i].items, Append(path, i), 1)
          ELSE {})
         \cup C18_Eligible(items, path, i + 1)

C18_Returned == {listing.files[k].path : k \in 1..Len(listing.files)}

C18_LeftOut == C18_Eligible(listing.items, <<>>, 1) \ C18_Returned

\* C18: when the cap leaves eligible files out, no returned file lies deeper
\* than a file left out.
C18_BreadthFirst ==
    spc = "listed" =>
        \A f \in C18_Returned : \A g \in C18_LeftOut : Len(f) <= Len(g)

\* What holds: the files returned are eligible, and all eligible files are
\* returned when there are at most 40.
C18_AllUnderCap ==
    spc = "listed" =>
        /\ C18_Returned \subseteq C18_Eligible(listing.items, <<>>, 1)
        /\ Cardinality(C18_Eligible(listing.items, <<>>, 1)) <= 40
              => C18_LeftOut = {}

-----------------------------------------------------------------------------
\* Nesting scan of detectTechnicalDebt, one character per step

MaxText == 6

\* the characters that matter to the scan: both braces and any other one
Chars == {"{", "}", "x"}

\* a counter pair after one character, with the decrement floored at zero
BraceStep_Floor(depth, maxDepth, ch) ==
    LET opened == IF ch = "{" THEN depth + 1 ELSE depth
        deepest == IF ch = "{" THEN Max(maxDepth, opened) ELSE maxDepth
    IN  [depth |-> IF ch = "}" THEN Max(opened - 1, 0) ELSE opened,
         maxDepth |-> deepest]

\* if (ch === '{') { depth++; maxDepth = Math.max(maxDepth, depth); }
\* if (ch === '}') depth--;
BraceStep(depth, maxDepth, ch) ==
    LET opened == IF ch = "{" THEN depth + 1 ELSE depth
        deepest == IF ch = "{" THEN Max(maxDepth, opened) ELSE maxDepth
    IN  [depth |-> IF ch = "}" THEN opened - 1 ELSE opened,
         maxDepth |-> deepest]

\* let maxDepth = 0, depth = 0, for any text of the bounded length
ScanInit ==
    /\ HistoryIdle
    /\ replay = NoReplay
    /\ timeline = NoTimeline
    /\ GraphIdle
    /\ SnapshotIdle
    /\ dash = NoDash
    /\ \E n \in 0..MaxText :
         \E content \in [1..n -> Chars] :
             scan = [content |-> content, i |-> 1, depth |-> 0, maxDepth |-> 0]

\* one iteration of for (const ch of content)
ScanChar ==
    /\ scan.i <= Len(scan.content)
    /\ LET after == BraceStep(scan.depth, scan.maxDepth, scan.content[scan.i])
       IN  scan' = [scan EXCEPT !.i = @ + 1, !.depth = after.depth,
                                !.maxDepth = after.maxDepth]
    /\ UNCHANGED <<hvars, replay, timeline, gvars, svars, dash>>

SpecScan == ScanInit /\ [][ScanChar]_vars

\* opening minus closing braces among the first k characters
C24_Balance(k) ==
    Cardinality({j \in 1..k : scan.content[j] = "{"})
      - Cardinality({j \in 1..k : scan.content[j] = "}"})

\* the largest balance over the prefixes of the first k characters, the empty
\* prefix included
C24_Deepest(k) ==
    CHOOSE d \in {C24_Balance(j) : j \in 0..k} :
        \A j \in 0..k : C24_Balance(j) <= d

\* C24: at every point of the scan, and so at its end, depth is the balance of
\* the characters read and maxDepth is the largest balance over the prefixes
\* read, which is max(0, ...) and never negative; a character is always
\* consumed while one is left, whatever the balance
C24_NestingDepth ==
    /\ scan.depth = C24_Balance(scan.i - 1)
    /\ scan.maxDepth = Max(0, C24_Deepest(scan.i - 1))
    /\ scan.maxDepth >= 0
    /\ scan.i <= Len(scan.content) => ENABLED ScanChar

\* a finished scan of a text whose balance went negative and which still
\* reached a positive depth
C24_Witness ==
    /\ scan.content # <<>>
    /\ scan.i = Len(scan.content) + 1
    /\ \E k \in 1..Len(scan.content) : C24_Balance(k) < 0
    /\ scan.depth < 0
    /\ scan.maxDepth >= 1

-----------------------------------------------------------------------------
\* scorePatch: the "File size increase" heuristic, in hundredths

\* what the heuristics other than the file size add to techDelta
C25_Others(p) ==
      (IF p.addedBraces > p.removedBraces + 3 THEN 15 ELSE 0)
    + Max(0, (p.addedBranches - p.removedBranches) * 2)
    + (IF p.dupes > 0 THEN 10 ELSE 0)
    + (IF p.magics > 3 THEN 5 ELSE 0)
    + (IF p.hasAsync /\ ~p.hasTryCatch THEN 8 ELSE 0)

\* the patches of the commit the loop has just scored whose techDelta is
\* below the cap of 1, so that the share of each heuristic is visible
C25_Scored ==
    IF lastFetch # "ok" THEN {}
    ELSE {p \in {ScoredFiles(lastDetail.files)[i] :
                    i \in 1..Len(ScoredFiles(lastDetail.files))} :
            p.hasPatch /\ scorePatch(p).techDelta < 100}

\* what the file size heuristic added to the techDelta of a scored patch
C25_Contribution(p) == scorePatch(p).techDelta - C25_Others(p)

\* C25: the added-line surplus contributes 0.10 to techDelta when it is above
\* 50 and 0.15, not the sum of both tiers, when it is above 100
C25_TieredSurplus ==
    \A p \in C25_Scored :
        C25_Contribution(p) =
            (IF p.addedLines - p.removedLines > 100 THEN 15
             ELSE IF p.addedLines - p.removedLines > 50 THEN 10 ELSE 0)

\* what the two tests in a row do: above 100 both tiers are added
C25_CumulativeSurplus ==
    \A p \in C25_Scored :
        C25_Contribution(p) =
            (IF p.addedLines - p.removedLines > 100 THEN 25
             ELSE IF p.addedLines - p.removedLines > 50 THEN 10 ELSE 0)

\* a scored patch with a surplus above 100
C25_AboveHundred ==
    \E p \in C25_Scored : p.addedLines - p.removedLines > 100

-----------------------------------------------------------------------------
\* The AI score along the records

\* C26: aiContribution never decreases along the records, those of skipped
\* commits and of commits that remove more than they add included
C26_AiNeverDecreases ==
    /\ \A i \in 2..Len(analyses) :
           analyses[i].aiContribution >= analyses[i - 1].aiContribution
    /\ response.kind = "ok" =>
           \A i \in 2..Len(response.commits) :
               response.commits[i].aiContribution
                   >= response.commits[i - 1].aiContribution

\* a returned history where the AI score rose at one commit and stayed while
\* the technical debt fell at a later one, which removed more than it added
C26_Witness ==
    /\ response.kind = "ok"
    /\ \E i, j \in 2..Len(response.commits) :
           /\ i < j
           /\ response.commits[i].aiContribution
                  > response.commits[i - 1].aiContribution
           /\ response.commits[j].deletions > response.commits[j].additions
           /\ response.commits[j].techDebt < response.commits[j - 1].techDebt
           /\ response.commits[j].aiContribution
                  = response.commits[j - 1].aiContribution

-----------------------------------------------------------------------------
\* The developer impacts against the whole history, rounded and unrounded

\* A double x met in these sums is a multiple of 2^-59 and is written <<h, e>>
\* with x = (h * 2^59 + e) / (100 * 2^59): h is the value in hundredths that
\* exact arithmetic would give and e the rounding error so far.

\* e for the double k / 100 of a record field, k = 0..100 (1-based: k + 1)
Float64Error ==
    <<0, 12, 24, -64, 48, 160, -128, 384, 96, -192, 320, 32, -256, 256, 768,
      -320, 192, 704, -384, 128, 640, -448, 64, 576, -512, 0, 512, 1024, 1536,
      -1152, -640, -128, 384, 896, 1408, -1280, -768, -256, 256, 768, 1280,
      -1408, -896, -384, 128, 640, 1152, -1536, -1024, -512, 0, 512, 1024,
      1536, 2048, 2560, 3072, -2816, -2304, -1792, -1280, -768, -256, 256,
      768, 1280, 1792, 2304, 2816, -3072, -2560, -2048, -1536, -1024, -512, 0,
      512, 1024, 1536, 2048, 2560, 3072, -2816, -2304, -1792, -1280, -768,
      -256, 256, 768, 1280, 1792, 2304, 2816, -3072, -2560, -2048, -1536,
      -1024, -512, 0>>

\* 2^59 modulo 100 * 2^(j + 1), for j = 1..9
TwoTo59Mod == <<288, 288, 1088, 2688, 5888, 12288, 12288, 12288, 12288>>

\* Math.round(running * 100) / 100 for the hundredths k: the double next to k / 100
F64(k) == <<k, Float64Error[k + 1]>>

\* a positive <<h, e>> lies below 2^(j - 6), the end of the binade whose
\* doubles are the multiples of 2^(j - 59)
F64Below(h, e, j) ==
    IF j < 4 THEN h <= <<1, 3, 6, 12>>[j + 1]
    ELSE h < 25 * 2^(j - 4) \/ (h = 25 * 2^(j - 4) /\ e < 0)

F64Binade(h, e) ==
    CHOOSE j \in 0..9 :
        F64Below(h, e, j) /\ \A k \in 0..(j - 1) : ~F64Below(h, e, k)

\* the exact positive value <<h, e>> rounded to the nearest double, ties to even
F64RoundPositive(h, e) ==
    LET j == F64Binade(h, e)
        low == ((h * TwoTo59Mod[j] + e) % (100 * 2^(j + 1))) \div 100
        rest == low % 2^j
        odd == low \div 2^j = 1
        half == 2^(j - 1)
    IN  IF h = 0 \/ j = 0 THEN <<h, e>>
        ELSE IF rest < half \/ (rest = half /\ ~odd) THEN <<h, e - 100 * rest>>
        ELSE <<h, e + 100 * (2^j - rest)>>

F64Round(x) ==
    IF x[1] < 0 \/ (x[1] = 0 /\ x[2] < 0)
    THEN LET r == F64RoundPositive(-x[1], -x[2]) IN <<-r[1], -r[2]>>
    ELSE F64RoundPositive(x[1], x[2])

\* a + b and a - b of two doubles
F64Add(a, b) == F64Round(<<a[1] + b[1], a[2] + b[2]>>)

F64Sub(a, b) == F64Round(<<a[1] - b[1], a[2] - b[2]>>)

\* existing.techImpact += analyses[i].techDebt - analyses[i - 1].techDebt over
\* the indices from..Len(recs) of one author, starting from acc
RECURSIVE UnroundedImpact(_, _, _, _, _)
UnroundedImpact(recs, name, field, from, acc) ==
    IF from > Len(recs) THEN acc
    ELSE IF recs[from].author # name
    THEN UnroundedImpact(recs, name, field, from + 1, acc)
    ELSE UnroundedImpact(recs, name, field, from + 1,
             F64Add(acc, F64Sub(F64(recs[from][field]), F64(recs[from - 1][field]))))

\* the unrounded impacts of the developers of the response added up as
\* doubles, in the order of the list
RECURSIVE C27_UnroundedTotal(_, _)
C27_UnroundedTotal(devs, field) ==
    IF devs = <<>> THEN <<0, 0>>
    ELSE F64Add(C27_UnroundedTotal(SubSeq(devs, 1, Len(devs) - 1), field),
                UnroundedImpact(response.commits, devs[Len(devs)].name, field,
                                2, <<0, 0>>))

\* last[field] - first[field] as the doubles give it
C27_Span(field) ==
    F64Sub(F64(response.commits[Len(response.commits)][field]),
           F64(response.commits[1][field]))

\* the sum of one field over the developers of the response
C27_Total(field) == SumField(response.developers, field)

-----------------------------------------------------------------------------
\* A history of zero commits

\* C28: when the commit list fetch succeeds with zero commits, the handler's
\* next and last step answers with an error and nothing else: no commits,
\* trend, momentum, prediction or spikeCount
C28_EmptyHistory ==
    [][(hpc = "loop" /\ commits = <<>>) =>
          /\ hpc' = "done"
          /\ response'.kind = "error"
          /\ DOMAIN response' = {"kind", "message"}]_vars

\* the handler has answered a fetched list of zero commits
C28_Witness ==
    /\ hpc = "done"
    /\ commits = <<>>
    /\ analyses = <<>>
    /\ response = ErrorResponse("TypeError")

-----------------------------------------------------------------------------
\* Self-edges of the propagation graph

\* the edges the builder made and the ones it returns
C29_Edges ==
    {edges[k] : k \in 1..Len(edges)} \cup {propagation[k] : k \in 1..Len(propagation)}

\* the files with an import reference that resolves to the file itself
C29_SelfImporting ==
    {i \in 1..Len(fileAnalyses) :
        \E k \in 1..Len(fileContents[fileAnalyses[i].file]) :
            Resolve(fileAnalyses, fileContents[fileAnalyses[i].file][k]) = i}

\* C29: no edge the builder returns, of either type, has its source equal to
\* its target, whatever the import references resolve to
C29_NoSelfEdge ==
    gpc = "built" => \A e \in C29_Edges : e.source # e.target

\* a built graph with edges for a corpus where one file imports itself and
\* another file has a reference whose final segment is empty
C29_Witness ==
    /\ gpc = "built"
    /\ propagation # <<>>
    /\ C29_SelfImporting # {}
    /\ \E i \in 1..Len(fileAnalyses) :
         \E k \in 1..Len(fileContents[fileAnalyses[i].file]) :
             /\ LastSegment(StripLeading(fileContents[fileAnalyses[i].file][k])) = <<>>
             /\ Resolve(fileAnalyses, fileContents[fileAnalyses[i].file][k]) # i

-----------------------------------------------------------------------------
\* The dashboard page: handleAnalyze, its callers and the backend calls

\* the most backend calls of one visit of the page
MaxCalls == 4

\* what the user may type or what ?repo= may hold
Inputs == {"A", "B", " A "}

\* url.trim()
Trim(url) == IF url = " A " THEN "A" ELSE url

\* the AnalysisResult the backend returns for a repository
Analysis(url) == [url |-> url, ok |-> TRUE]

\* analysisCache.has(url): the cache is the set of its values, one per key
Cached(d, url) == \E a \in d.analysisCache : a.url = url

\* analysisCache.get(url)
CacheGet(d, url) == CHOOSE a \in d.analysisCache : a.url = url

\* The retry button after a render.  <AnimatePresence> shows it while
\* error && !loading and keeps the one last rendered, with the lastUrl of that
\* render, until its exit animation has ended.
Rendered(d) ==
    [d EXCEPT !.retry = IF d.error /\ ~d.loading THEN d.lastUrl ELSE @]

\* handleAnalyze(url) up to its await, or to its return on a cache hit
handleAnalyze(d, url) ==
    LET trimmed == Trim(url)
        called == [d EXCEPT !.submitted = trimmed,
                            !.overlapped = @ \/ d.pending # {}]
    IN  IF Cached(d, trimmed)
        THEN Rendered([called EXCEPT !.data = CacheGet(d, trimmed),
                                     !.error = FALSE])
        ELSE Rendered([called EXCEPT !.loading = TRUE, !.error = FALSE,
                                     !.lastUrl = trimmed, !.data = NoResult,
                                     !.pending = @ \cup {[id |-> d.calls + 1,
                                                          url |-> trimmed]},
                                     !.calls = @ + 1])

\* mutant: the catch block stores what it got under the URL
Failed_Cached(d, call) ==
    Rendered([d EXCEPT !.pending = @ \ {call}, !.error = TRUE,
                       !.loading = FALSE,
                       !.analysisCache =
                           {a \in @ : a.url # call.url}
                               \cup {[url |-> call.url, ok |-> FALSE]}])

\* fnError or result.error: catch { setError(..) } finally { setLoading(false) }
Failed(d, call) ==
    Rendered([d EXCEPT !.pending = @ \ {call}, !.error = TRUE,
                       !.loading = FALSE])

\* analysisCache.set(trimmed, analysis); setData(analysis); finally
Succeeded(d, call) ==
    Rendered([d EXCEPT !.pending = @ \ {call},
                       !.analysisCache =
                           {a \in @ : a.url # call.url} \cup {Analysis(call.url)},
                       !.data = Analysis(call.url),
                       !.loading = FALSE])

\* The page has mounted: useState initial values, an empty module-level cache
DInit ==
    /\ HistoryIdle
    /\ replay = NoReplay
    /\ timeline = NoTimeline
    /\ GraphIdle
    /\ SnapshotIdle
    /\ scan = NoScan
    /\ dash = [NoDash EXCEPT !.mounted = TRUE]

\* useEffect(() => { const repo = searchParams.get("repo"); if (repo) .. }, [])
AutoAnalyze ==
    /\ dash = [NoDash EXCEPT !.mounted = TRUE]
    /\ \E url \in Inputs : dash' = handleAnalyze(dash, url)
    /\ UNCHANGED <<hvars, replay, timeline, gvars, svars, scan>>

\* <RepoInput onAnalyze={handleAnalyze} loading={loading} />: the submit
\* button is disabled while loading, and the input is trimmed
Submit ==
    /\ dash.mounted
    /\ ~dash.loading
    /\ dash.calls < MaxCalls
    /\ \E url \in Inputs : dash' = handleAnalyze(dash, Trim(url))
    /\ UNCHANGED <<hvars, replay, timeline, gvars, svars, scan>>

\* {!data && !loading && <HistoryPanel onSelectRepo={handleAnalyze} />}
SelectRepo ==
    /\ dash.mounted
    /\ dash.data = NoResult
    /\ ~dash.loading
    /\ dash.calls < MaxCalls
    /\ \E url \in {Trim(u) : u \in Inputs} : dash' = handleAnalyze(dash, url)
    /\ UNCHANGED <<hvars, replay, timeline, gvars, svars, scan>>

\* <button onClick={() => handleAnalyze(lastUrl)}>Retry</button>
Retry ==
    /\ dash.mounted
    /\ dash.retry # "none"
    /\ dash.calls < MaxCalls
    /\ dash' = handleAnalyze(dash, dash.retry)
    /\ UNCHANGED <<hvars, replay, timeline, gvars, svars, scan>>

\* the exit animation of the error panel has ended
PanelExit ==
    /\ dash.mounted
    /\ dash.retry # "none"
    /\ ~(dash.error /\ ~dash.loading)
    /\ dash' = [dash EXCEPT !.retry = "none"]
    /\ UNCHANGED <<hvars, replay, timeline, gvars, svars, scan>>

\* supabase.functions.invoke("analyze-repo") has resolved with an analysis
CallSucceeds ==
    /\ \E call \in dash.pending : dash' = Succeeded(dash, call)
    /\ UNCHANGED <<hvars, replay, timeline, gvars, svars, scan>>

\* the call has resolved with fnError or with { error }
CallFails ==
    /\ \E call \in dash.pending : dash' = Failed(dash, call)
    /\ UNCHANGED <<hvars, replay, timeline, gvars, svars, scan>>

DNext ==
    \/ AutoAnalyze
    \/ SelectRepo
    \/ Submit
    \/ Retry
    \/ PanelExit
    \/ CallSucceeds
    \/ CallFails

SpecDashboard == DInit /\ [][DNext]_vars

\* only successful results are in the cache, each under its own URL
C30_OnlySuccessesCached ==
    \A a \in dash.analysisCache : a = Analysis(a.url) /\ a.url \in {"A", "B"}

\* with no call in flight, a displayed result is the one of the URL
\* submitted last
C30_DisplaysLatest ==
    (dash.pending = {} /\ dash.data # NoResult) => dash.data.url = dash.submitted

\* C30: under any interleaving of analyze requests, once no request is in
\* flight the displayed result is the one for the most recently submitted URL,
\* and only successful results are ever stored in the cache
C30_LatestWins ==
    /\ C30_DisplaysLatest
    /\ C30_OnlySuccessesCached

\* what holds: the cache only holds successes, and the display follows the
\* last submission as long as handleAnalyze was never called with a call in
\* flight
C30_LatestWinsSerially ==
    /\ C30_OnlySuccessesCached
    /\ ~dash.overlapped => C30_DisplaysLatest

\* a call was made while another was in flight, and both have resolved
C30_Overlapped ==
    /\ dash.overlapped
    /\ dash.pending = {}
    /\ dash.analysisCache # {}

=============================================================================
